---- MODULE Spec2Model ----
(***************************************************************************)
(* Model of the Web3D-Bookmark server: the REST handlers of                *)
(* server/routes.ts over the storage layer of server/storage.ts and the    *)
(* tables of shared/schema.ts.                                             *)
(*                                                                         *)
(* Conventions.  Strings that the code converts (emails, route ids, user   *)
(* ids) are sequences of character codes, so that toLowerCase, parseInt    *)
(* and String() are computed.  Bookmark numbers (x, y, z, scale) are in    *)
(* tenths, settings numbers in hundredths.  A JSON payload is a function   *)
(* whose domain is the set of keys present in the body.  A handler is      *)
(* split at an await only where the awaited results can differ between     *)
(* interleavings: signup (lookup, insert), settings put (read, write) and  *)
(* the layout batch (one update per tuple).                                *)
(*                                                                         *)
(* The client side is the bookmark list query with the optimistic delete   *)
(* of client/src/hooks/use-bookmarks.ts, its Router, authFetch with the    *)
(* session, login and signup calls of client/src/hooks/use-auth.ts, and    *)
(* the Scene's node positions with the drag handlers of BookmarkNode and   *)
(* the layout save they start.  A client action that reaches the server    *)
(* contains the handler it calls.                                          *)
(***************************************************************************)
EXTENDS Integers, Sequences, FiniteSets, TLC

\* ---------------------------------------------------------------- bounds
MaxUserId == 2
MaxBookmarkId == 2
MaxClock == 1
MaxSettingsId == 2
MaxInFlight == 2
MaxListed == 2

\* ------------------------------------------------------ program constants
ScaleMin == 2
ScaleMax == 30
DefaultScale == 10
DefaultCoord == 0
PasswordMin == 8
PasswordMax == 128
DefaultGlowIntensity == 110
DefaultAutoRotateSpeed == 35
DefaultZoomSensitivity == 100
DefaultParticleDensity == 12000

Sessions == {1, 2}

\* --------------------------------------------------------- pure functions
\* String.prototype.toLowerCase on one ASCII character code.
ToLowerChar(c) == IF c >= 65 /\ c <= 90 THEN c + 32 ELSE c

\* email.toLowerCase()
toLowerCase(str) == [i \in DOMAIN str |-> ToLowerChar(str[i])]

\* z.string().email(): a local part, one "@" (64), a domain with a "." (46).
IsEmail(str) ==
    \E i \in DOMAIN str :
        /\ str[i] = 64
        /\ i > 1
        /\ \A j \in DOMAIN str : str[j] = 64 => j = i
        /\ \E k \in DOMAIN str : k > i + 1 /\ k < Len(str) /\ str[k] = 46

IsDigit(c) == c >= 48 /\ c <= 57

RECURSIVE DigitsValue(_, _, _)
\* Value of the longest run of decimal digits of str starting at i.
DigitsValue(str, i, acc) ==
    IF i > Len(str) \/ ~IsDigit(str[i]) THEN acc
    ELSE DigitsValue(str, i + 1, acc * 10 + (str[i] - 48))

NaN == -1

\* parseInt(req.params.id): the leading decimal digits, NaN when there are
\* none.  (Route ids here carry no sign, blank or 0x prefix.)
parseInt(str) ==
    IF Len(str) = 0 \/ ~IsDigit(str[1]) THEN NaN ELSE DigitsValue(str, 1, 0)

RECURSIVE String(_)
\* String(user.id) for a non-negative integer: its decimal digits.
String(n) == IF n < 10 THEN <<48 + n>> ELSE String(n \div 10) \o <<48 + (n % 10)>>

\* zod objects strip keys they do not declare.
StripNothing(body, keys) == body
Strip(body, keys) == [k \in (DOMAIN body) \cap keys |-> body[k]]

\* hashPassword / verifyPassword: scrypt under the stored salt; the stored
\* hash verifies exactly the password it was made from.
hashPassword(password, salt) == [salt |-> salt, hash |-> password]
verifyPasswordAny(password, storedHash) == TRUE
verifyPassword(password, storedHash) == storedHash.hash = password

\* ------------------------------------------------------------------ state
VARIABLES users, nextUserId, bookmarks, nextBookmarkId, settings,
          nextSettingsId, sessions, pend, resp, now,
          cache, muts, listFetch, listError,
          location, profile, effectPending, authCall,
          positions, dragging, movedDuringDrag, saves

vars == <<users, nextUserId, bookmarks, nextBookmarkId, settings,
          nextSettingsId, sessions, pend, resp, now,
          cache, muts, listFetch, listError,
          location, profile, effectPending, authCall,
          positions, dragging, movedDuringDrag, saves>>

\* The server: tables, serial counters, the session store, the handlers in
\* flight, the last response and the clock.
serverVars == <<users, nextUserId, bookmarks, nextBookmarkId, settings,
                nextSettingsId, sessions, pend, resp, now>>

\* The browser client of session 1: the bookmark-list query and the delete
\* mutations in flight, the router, the session query and the authFetch
\* call in progress; the Scene's node positions, the nodes being dragged,
\* their movedDuringDragRef, and the layout saves in flight.
listVars == <<cache, muts, listFetch, listError>>
routerVars == <<location, profile, effectPending, authCall>>
sceneVars == <<positions, dragging, movedDuringDrag, saves>>
clientVars == <<cache, muts, listFetch, listError,
                location, profile, effectPending, authCall,
                positions, dragging, movedDuringDrag, saves>>

\* A query's data: undefined, or the array the last fetch or setQueryData put.
NoList == [defined |-> FALSE, list |-> <<>>]
ListOf(seq) == [defined |-> TRUE, list |-> seq]

\* Delete mutations run in numbered slots; a free slot holds no mutation.
Slots == 1..MaxInFlight
FreeSlot == [phase |-> "free"]

NoFetch == [phase |-> "idle"]
FetchSent == [phase |-> "sent"]

NoCall == [op |-> "idle"]

\* The client before its page has loaded.
ClientIdle ==
    /\ cache = NoList
    /\ muts = [m \in Slots |-> FreeSlot]
    /\ listFetch = NoFetch
    /\ listError = FALSE
    /\ location = "/"
    /\ profile = [state |-> "loading"]
    /\ effectPending = FALSE
    /\ authCall = NoCall
    /\ positions = <<>>
    /\ dragging = {}
    /\ movedDuringDrag = {}
    /\ saves = [m \in Slots |-> FreeSlot]

Idle == [op |-> "idle"]

NoBody == {}

Response(op, s, status, message, body, dbError) ==
    [op |-> op, sess |-> s, status |-> status, message |-> message,
     body |-> body, dbError |-> dbError]

\* A handler that is suspended at an await has sent nothing yet.
Awaiting(op, s) == Response(op, s, 0, "", NoBody, FALSE)

\* The catch blocks of the auth and settings routes: a rejected storage call
\* whose error code is 42P01 (undefined table) is answered with a message of
\* its own, any other with the generic one.
CaughtFailure(op, s) ==
    { Response(op, s, 500, "Internal server error", NoBody, TRUE),
      Response(op, s, 500, "Database schema is outdated. Run npm run db:push.",
               NoBody, TRUE) }

Init ==
    /\ users = {}
    /\ nextUserId = 1
    /\ bookmarks = {}
    /\ nextBookmarkId = 1
    /\ settings = {}
    /\ nextSettingsId = 1
    /\ sessions = [s \in Sessions |-> 0]
    /\ pend = [s \in Sessions |-> Idle]
    /\ resp = Response("none", 1, 0, "", NoBody, FALSE)
    /\ now = 0
    /\ ClientIdle

\* ---------------------------------------------------------- storage layer
getUserById(id) == {u \in users : u.id = id}

getUserByEmailNoFold(email) == {u \in users : u.email = email}
getUserByEmail(email) == {u \in users : u.email = toLowerCase(email)}

\* The row createUser inserts.
createUserRowNoFold(id, input, passwordHash) ==
    [id |-> id, name |-> input.name, email |-> input.email,
     passwordHash |-> passwordHash]
createUserRow(id, input, passwordHash) ==
    [id |-> id, name |-> input.name, email |-> toLowerCase(input.email),
     passwordHash |-> passwordHash]

\* users.email is declared unique().
UsersEmailUnique(rows) ==
    \A u, v \in rows : u.email = v.email => u = v

\* resolveAuthenticatedUser: the user rows the session resolves to.
resolveAuthenticatedUserOpen(s) == users
resolveAuthenticatedUser(s) ==
    IF sessions[s] = 0 THEN {} ELSE getUserById(sessions[s])

ProfileBody(u) == {[id |-> String(u.id), email |-> u.email, name |-> u.name,
                    role |-> "explorer"]}

\* ------------------------------------------------------------ auth routes
SignupKeys == {"name", "email", "password"}

signupSchemaOk(body) ==
    /\ SignupKeys \subseteq DOMAIN body
    /\ IsEmail(body.email)
    /\ Len(body.password) >= PasswordMin
    /\ Len(body.password) <= PasswordMax

loginSchemaOk(body) ==
    /\ {"email", "password"} \subseteq DOMAIN body
    /\ IsEmail(body.email)
    /\ Len(body.password) >= PasswordMin
    /\ Len(body.password) <= PasswordMax

EmailInputs == { <<97, 64, 120, 46, 105, 111>>,     \* a@x.io
                 <<65, 64, 120, 46, 105, 111>>,     \* A@x.io
                 <<98, 64, 88, 46, 105, 111>> }     \* b@X.io

BadEmail == <<97, 120, 46, 105, 111>>               \* ax.io

SignupBodies ==
    { [name |-> "n", email |-> e, password |-> "password1"] : e \in EmailInputs }
    \cup { [name |-> "n", email |-> BadEmail, password |-> "password1"],
           [name |-> "n", email |-> <<97, 64, 120, 46, 105, 111>>, password |-> "short"] }

LoginBodies ==
    { [email |-> e, password |-> p] :
        e \in EmailInputs, p \in {"password1", "password2"} }
    \cup { [email |-> BadEmail, password |-> "password1"] }

\* POST /api/auth/signup up to the await of storage.getUserByEmail.
SignupLookupHandler(s, body, fail) ==
    /\ pend[s] = Idle
    /\ IF ~signupSchemaOk(body)
       THEN /\ resp' = Response("signup", s, 400, "Invalid signup payload", NoBody, FALSE)
            /\ pend' = pend
       ELSE IF fail
       THEN /\ resp' \in CaughtFailure("signup", s)
            /\ pend' = pend
       ELSE IF getUserByEmail(body.email) # {}
       THEN /\ resp' = Response("signup", s, 409, "Email already registered", NoBody, FALSE)
            /\ pend' = pend
       ELSE /\ resp' = Awaiting("signup", s)
            /\ pend' = [pend EXCEPT ![s] =
                          [op |-> "signup", data |-> Strip(body, SignupKeys)]]
    /\ UNCHANGED <<users, nextUserId, bookmarks, nextBookmarkId, settings,
                   nextSettingsId, sessions, now>>

SignupLookup(s, body, fail) == SignupLookupHandler(s, body, fail) /\ UNCHANGED clientVars

\* POST /api/auth/signup from storage.createUser to the response.  The
\* serial id is consumed whether or not the insert passes the unique index.
SignupCreateHandler(s, fail) ==
    /\ pend[s].op = "signup"
    /\ pend' = [pend EXCEPT ![s] = Idle]
    /\ IF fail
       THEN /\ resp' \in CaughtFailure("signup", s)
            /\ UNCHANGED <<users, nextUserId, sessions>>
       ELSE /\ nextUserId <= MaxUserId
            /\ nextUserId' = nextUserId + 1
            /\ LET row == createUserRow(nextUserId, pend[s].data,
                                        hashPassword(pend[s].data.password, nextUserId))
               IN IF UsersEmailUnique(users \cup {row})
                  THEN /\ users' = users \cup {row}
                       /\ sessions' = [sessions EXCEPT ![s] = row.id]
                       /\ resp' = Response("signup", s, 201, "", ProfileBody(row), FALSE)
                  ELSE /\ resp' = Response("signup", s, 500, "Internal server error", NoBody, TRUE)
                       /\ UNCHANGED <<users, sessions>>
    /\ UNCHANGED <<bookmarks, nextBookmarkId, settings, nextSettingsId, now>>

SignupCreate(s, fail) == SignupCreateHandler(s, fail) /\ UNCHANGED clientVars

\* POST /api/auth/login.
LoginHandlerUnknownEmail404(s, body, fail) ==
    /\ pend[s] = Idle
    /\ IF ~loginSchemaOk(body)
       THEN /\ resp' = Response("login", s, 400, "Invalid login payload", NoBody, FALSE)
            /\ sessions' = sessions
       ELSE IF fail
       THEN /\ resp' \in CaughtFailure("login", s)
            /\ sessions' = sessions
       ELSE LET found == getUserByEmail(body.email)
            IN IF found = {}
               THEN /\ resp' = Response("login", s, 404, "User not found", NoBody, FALSE)
                    /\ sessions' = sessions
               ELSE IF \E u \in found : verifyPassword(body.password, u.passwordHash)
               THEN \E u \in found :
                      /\ sessions' = [sessions EXCEPT ![s] = u.id]
                      /\ resp' = Response("login", s, 200, "", ProfileBody(u), FALSE)
               ELSE /\ resp' = Response("login", s, 401, "Invalid email or password", NoBody, FALSE)
                    /\ sessions' = sessions
    /\ UNCHANGED <<users, nextUserId, bookmarks, nextBookmarkId, settings,
                   nextSettingsId, pend, now>>
LoginHandler(s, body, fail) ==
    /\ pend[s] = Idle
    /\ IF ~loginSchemaOk(body)
       THEN /\ resp' = Response("login", s, 400, "Invalid login payload", NoBody, FALSE)
            /\ sessions' = sessions
       ELSE IF fail
       THEN /\ resp' \in CaughtFailure("login", s)
            /\ sessions' = sessions
       ELSE LET found == getUserByEmail(body.email)
            IN IF \E u \in found : verifyPassword(body.password, u.passwordHash)
               THEN \E u \in found :
                      /\ sessions' = [sessions EXCEPT ![s] = u.id]
                      /\ resp' = Response("login", s, 200, "", ProfileBody(u), FALSE)
               ELSE /\ resp' = Response("login", s, 401, "Invalid email or password", NoBody, FALSE)
                    /\ sessions' = sessions
    /\ UNCHANGED <<users, nextUserId, bookmarks, nextBookmarkId, settings,
                   nextSettingsId, pend, now>>

Login(s, body, fail) == LoginHandler(s, body, fail) /\ UNCHANGED clientVars

\* POST /api/logout: session.destroy, which may report an error.
LogoutHandlerKeepSession(s, fail) ==
    /\ pend[s] = Idle
    /\ resp' = IF fail THEN Response("logout", s, 500, "Failed to logout", NoBody, FALSE)
               ELSE Response("logout", s, 204, "", NoBody, FALSE)
    /\ UNCHANGED <<users, nextUserId, bookmarks, nextBookmarkId, settings,
                   nextSettingsId, sessions, pend, now>>
LogoutHandler(s, fail) ==
    /\ pend[s] = Idle
    /\ IF fail
       THEN /\ resp' = Response("logout", s, 500, "Failed to logout", NoBody, FALSE)
            /\ sessions' = sessions
       ELSE /\ resp' = Response("logout", s, 204, "", NoBody, FALSE)
            /\ sessions' = [sessions EXCEPT ![s] = 0]
    /\ UNCHANGED <<users, nextUserId, bookmarks, nextBookmarkId, settings,
                   nextSettingsId, pend, now>>

Logout(s, fail) == LogoutHandler(s, fail) /\ UNCHANGED clientVars

\* GET /api/profile.  The lookup is awaited outside any try block: when it
\* rejects the handler sends nothing (status 0).
GetProfileHandler(s, fail) ==
    /\ pend[s] = Idle
    /\ IF sessions[s] # 0 /\ fail
       THEN resp' = Response("profile", s, 0, "", NoBody, TRUE)
       ELSE IF resolveAuthenticatedUser(s) = {}
       THEN resp' = Response("profile", s, 401, "Unauthorized", NoBody, FALSE)
       ELSE \E u \in resolveAuthenticatedUser(s) :
              resp' = Response("profile", s, 200, "", ProfileBody(u), FALSE)
    /\ UNCHANGED <<users, nextUserId, bookmarks, nextBookmarkId, settings,
                   nextSettingsId, sessions, pend, now>>

GetProfile(s, fail) == GetProfileHandler(s, fail) /\ UNCHANGED clientVars

\* Where a storage call of a handler may reject: nowhere, in the session
\* lookup (awaited before the handler's try block) or in the call in the try.
FailPoints == {"none", "auth", "store"}

\* ------------------------------------------------------- bookmark storage
BookmarkRequired == {"title", "url", "category"}
BookmarkKeys == BookmarkRequired \cup {"x", "y", "z", "scale", "pinned"}
NumberKeys == {"x", "y", "z", "scale"}

\* Stands for a JSON value that is not a number where one is expected.
NotNumber == -9999

\* insertBookmarkSchema.parse: the three notNull text columns are required,
\* the numeric columns are optional numbers of any magnitude.
insertBookmarkSchemaOk(body) ==
    /\ BookmarkRequired \subseteq DOMAIN body
    /\ \A k \in NumberKeys \cap DOMAIN body : body[k] # NotNumber

\* insertBookmarkSchema.partial().parse
partialBookmarkSchemaOk(body) ==
    \A k \in NumberKeys \cap DOMAIN body : body[k] # NotNumber

BookmarkDefaults ==
    [x |-> DefaultCoord, y |-> DefaultCoord, z |-> DefaultCoord,
     scale |-> DefaultScale, pinned |-> FALSE]

\* The row inserted by createBookmark: { ...insertBookmark, userId }.
createBookmarkRow(id, data, userId) ==
    [id |-> id, userId |-> userId,
     title |-> data.title, url |-> data.url, category |-> data.category,
     x |-> IF "x" \in DOMAIN data THEN data.x ELSE BookmarkDefaults.x,
     y |-> IF "y" \in DOMAIN data THEN data.y ELSE BookmarkDefaults.y,
     z |-> IF "z" \in DOMAIN data THEN data.z ELSE BookmarkDefaults.z,
     scale |-> IF "scale" \in DOMAIN data THEN data.scale ELSE BookmarkDefaults.scale,
     pinned |-> IF "pinned" \in DOMAIN data THEN data.pinned ELSE BookmarkDefaults.pinned]

\* .set(values): the named columns take the new values, the others stay.
SetColumnsResetOthers(row, values) ==
    [k \in DOMAIN row |-> IF k \in DOMAIN values THEN values[k]
                          ELSE IF k \in DOMAIN BookmarkDefaults THEN BookmarkDefaults[k]
                          ELSE row[k]]
SetColumns(row, values) ==
    [k \in DOMAIN row |-> IF k \in DOMAIN values THEN values[k] ELSE row[k]]

getBookmarksAll(rows, userId) == rows
getBookmarks(rows, userId) == {b \in rows : b.userId = userId}

\* WHERE id = :id AND user_id = :userId
OwnedByIdOnly(rows, id, userId) == {b \in rows : b.id = id}
OwnedById(rows, id, userId) == {b \in rows : b.id = id /\ b.userId = userId}

\* updateBookmark: the table after the UPDATE ... RETURNING.
updateBookmarkAnyOwner(rows, id, data, userId) ==
    {IF b.id = id THEN SetColumns(b, data) ELSE b : b \in rows}
updateBookmark(rows, id, data, userId) ==
    {IF b \in OwnedById(rows, id, userId) THEN SetColumns(b, data) ELSE b : b \in rows}

\* deleteBookmark: the table after the DELETE ... RETURNING.
deleteBookmark(rows, id, userId) == rows \ OwnedById(rows, id, userId)

LayoutColumns == {"x", "y", "z", "scale", "pinned"}

\* One iteration of the loop of updateBookmarkLayouts.
updateBookmarkLayoutAnyOwner(rows, userId, layout) ==
    {IF b.id = layout.id
        THEN SetColumns(b, Strip(layout, LayoutColumns)) ELSE b : b \in rows}
updateBookmarkLayoutNoPinned(rows, userId, layout) ==
    {IF b.id = layout.id /\ b.userId = userId
        THEN SetColumns(b, Strip(layout, {"x", "y", "z", "scale"})) ELSE b : b \in rows}
updateBookmarkLayoutEveryRow(rows, userId, layout) ==
    {IF b.userId = userId
        THEN SetColumns(b, Strip(layout, LayoutColumns)) ELSE b : b \in rows}
updateBookmarkLayout(rows, userId, layout) ==
    {IF b \in OwnedById(rows, layout.id, userId)
        THEN SetColumns(b, Strip(layout, LayoutColumns)) ELSE b : b \in rows}

\* updateBookmarkLayouts: the table after the loop over the given tuples.
RECURSIVE ApplyLayouts(_, _, _)
ApplyLayouts(rows, userId, layouts) ==
    IF layouts = <<>> THEN rows
    ELSE ApplyLayouts(updateBookmarkLayout(rows, userId, Head(layouts)), userId,
                      Tail(layouts))

\* updateBookmarkLayoutSchema on one element of the array.
layoutScaleOkNoMax(layout) ==
    "scale" \in DOMAIN layout => layout.scale >= ScaleMin
layoutScaleOk(layout) ==
    "scale" \in DOMAIN layout => (layout.scale >= ScaleMin /\ layout.scale <= ScaleMax)

updateBookmarkLayoutSchemaOk(layout) ==
    /\ {"id", "x", "y", "z"} \subseteq DOMAIN layout
    /\ layout.id > 0
    /\ \A k \in {"x", "y", "z"} : layout[k] # NotNumber
    /\ layoutScaleOk(layout)

\* The parsed element as handed to storage: scale defaults to 1, and the
\* route maps pinned to layout.pinned ?? false.
ParsedLayout(layout) ==
    [id |-> layout.id, x |-> layout.x, y |-> layout.y, z |-> layout.z,
     scale |-> IF "scale" \in DOMAIN layout THEN layout.scale ELSE DefaultScale,
     pinned |-> IF "pinned" \in DOMAIN layout THEN layout.pinned ELSE FALSE]

\* z.array(updateBookmarkLayoutSchema).parse(req.body)
layoutArrayOk(batch) == \A i \in DOMAIN batch : updateBookmarkLayoutSchemaOk(batch[i])

\* ---------------------------------------------------------- request inputs
CreateBodies ==
    { [title |-> "t1", url |-> "u1", category |-> "c1", x |-> 7, userId |-> String(2)],
      [url |-> "u1", category |-> "c1"] }

UpdateBodies ==
    { [title |-> "t3"],
      [scale |-> NotNumber] }

IdParams == { <<49>>, <<50, 120>>, <<120>> }    \* "1", "2x", "x"

L1 == [id |-> 1, x |-> 1, y |-> 2, z |-> 3, scale |-> 20, pinned |-> TRUE]
L2 == [id |-> 2, x |-> 4, y |-> 4, z |-> 4]
L2big == [id |-> 2, x |-> 4, y |-> 4, z |-> 4, scale |-> 50]

LayoutBatches == { <<>>, <<L1, L2>>, <<L1, L2big>> }

\* --------------------------------------------------------- bookmark routes
UserIdOf(s) == String(sessions[s])

Unauthorized(op, s) == Response(op, s, 401, "Unauthorized", NoBody, FALSE)
Unhandled(op, s) == Response(op, s, 0, "", NoBody, TRUE)
InternalError(op, s) == Response(op, s, 500, "Internal server error", NoBody, TRUE)

AuthRejects(s, fail) == sessions[s] # 0 /\ fail = "auth"

\* GET /api/bookmarks (no try block at all).
GetBookmarksHandler(s, fail) ==
    /\ pend[s] = Idle
    /\ IF AuthRejects(s, fail) THEN resp' = Unhandled("getBookmarks", s)
       ELSE IF resolveAuthenticatedUser(s) = {} THEN resp' = Unauthorized("getBookmarks", s)
       ELSE IF fail = "store" THEN resp' = Unhandled("getBookmarks", s)
       ELSE resp' = Response("getBookmarks", s, 200, "",
                             getBookmarks(bookmarks, UserIdOf(s)), FALSE)
    /\ UNCHANGED <<users, nextUserId, bookmarks, nextBookmarkId, settings,
                   nextSettingsId, sessions, pend, now>>

GetBookmarks(s, fail) == GetBookmarksHandler(s, fail) /\ UNCHANGED clientVars

\* POST /api/bookmarks.
CreateBookmark(s, body, fail) ==
    /\ pend[s] = Idle
    /\ IF AuthRejects(s, fail)
       THEN /\ resp' = Unhandled("createBookmark", s)
            /\ UNCHANGED <<bookmarks, nextBookmarkId>>
       ELSE IF resolveAuthenticatedUser(s) = {}
       THEN /\ resp' = Unauthorized("createBookmark", s)
            /\ UNCHANGED <<bookmarks, nextBookmarkId>>
       ELSE IF ~insertBookmarkSchemaOk(body)
       THEN /\ resp' = Response("createBookmark", s, 400, "Invalid input", NoBody, FALSE)
            /\ UNCHANGED <<bookmarks, nextBookmarkId>>
       ELSE IF fail = "store"
       THEN /\ resp' = InternalError("createBookmark", s)
            /\ UNCHANGED <<bookmarks, nextBookmarkId>>
       ELSE /\ nextBookmarkId <= MaxBookmarkId
            /\ LET row == createBookmarkRow(nextBookmarkId, Strip(body, BookmarkKeys),
                                            UserIdOf(s))
               IN /\ bookmarks' = bookmarks \cup {row}
                  /\ resp' = Response("createBookmark", s, 201, "", {row}, FALSE)
            /\ nextBookmarkId' = nextBookmarkId + 1
    /\ UNCHANGED <<users, nextUserId, settings, nextSettingsId, sessions, pend, now>>
    /\ UNCHANGED clientVars

\* PUT /api/bookmarks/:id.
UpdateBookmark(s, idParam, body, fail) ==
    /\ pend[s] = Idle
    /\ IF AuthRejects(s, fail)
       THEN /\ resp' = Unhandled("updateBookmark", s)
            /\ bookmarks' = bookmarks
       ELSE IF resolveAuthenticatedUser(s) = {}
       THEN /\ resp' = Unauthorized("updateBookmark", s)
            /\ bookmarks' = bookmarks
       ELSE IF parseInt(idParam) = NaN
       THEN /\ resp' = Response("updateBookmark", s, 400, "Invalid ID", NoBody, FALSE)
            /\ bookmarks' = bookmarks
       ELSE IF ~partialBookmarkSchemaOk(body)
       THEN /\ resp' = Response("updateBookmark", s, 400, "Invalid input", NoBody, FALSE)
            /\ bookmarks' = bookmarks
       ELSE IF fail = "store"
       THEN /\ resp' = InternalError("updateBookmark", s)
            /\ bookmarks' = bookmarks
       ELSE LET id == parseInt(idParam)
                data == Strip(body, BookmarkKeys)
                after == updateBookmark(bookmarks, id, data, UserIdOf(s))
                returned == OwnedById(after, id, UserIdOf(s))
            IN /\ bookmarks' = after
               /\ resp' = IF returned = {}
                          THEN Response("updateBookmark", s, 404, "Bookmark not found", NoBody, FALSE)
                          ELSE Response("updateBookmark", s, 200, "", returned, FALSE)
    /\ UNCHANGED <<users, nextUserId, nextBookmarkId, settings, nextSettingsId,
                   sessions, pend, now>>
    /\ UNCHANGED clientVars

\* DELETE /api/bookmarks/:id.
DeleteBookmarkHandler(s, idParam, fail) ==
    /\ pend[s] = Idle
    /\ IF AuthRejects(s, fail)
       THEN /\ resp' = Unhandled("deleteBookmark", s)
            /\ bookmarks' = bookmarks
       ELSE IF resolveAuthenticatedUser(s) = {}
       THEN /\ resp' = Unauthorized("deleteBookmark", s)
            /\ bookmarks' = bookmarks
       ELSE IF parseInt(idParam) = NaN
       THEN /\ resp' = Response("deleteBookmark", s, 400, "Invalid ID", NoBody, FALSE)
            /\ bookmarks' = bookmarks
       ELSE IF fail = "store"
       THEN /\ resp' = InternalError("deleteBookmark", s)
            /\ bookmarks' = bookmarks
       ELSE LET id == parseInt(idParam)
                deleted == OwnedById(bookmarks, id, UserIdOf(s))
            IN /\ bookmarks' = deleteBookmark(bookmarks, id, UserIdOf(s))
               /\ resp' = IF deleted = {}
                          THEN Response("deleteBookmark", s, 404, "Bookmark not found", NoBody, FALSE)
                          ELSE Response("deleteBookmark", s, 204, "", NoBody, FALSE)
    /\ UNCHANGED <<users, nextUserId, nextBookmarkId, settings, nextSettingsId,
                   sessions, pend, now>>

DeleteBookmark(s, idParam, fail) == DeleteBookmarkHandler(s, idParam, fail) /\ UNCHANGED clientVars

\* PUT /api/bookmarks/layout up to the first update of the loop.
LayoutBeginHandler(s, batch, fail) ==
    /\ pend[s] = Idle
    /\ IF AuthRejects(s, fail)
       THEN /\ resp' = Unhandled("layout", s)
            /\ pend' = pend
       ELSE IF resolveAuthenticatedUser(s) = {}
       THEN /\ resp' = Unauthorized("layout", s)
            /\ pend' = pend
       ELSE IF ~layoutArrayOk(batch)
       THEN /\ resp' = Response("layout", s, 400, "Invalid layout payload", NoBody, FALSE)
            /\ pend' = pend
       ELSE IF batch = <<>>
       THEN /\ resp' = Response("layout", s, 204, "", NoBody, FALSE)
            /\ pend' = pend
       ELSE /\ resp' = Awaiting("layout", s)
            /\ pend' = [pend EXCEPT ![s] =
                          [op |-> "layout", userId |-> UserIdOf(s),
                           layouts |-> [i \in DOMAIN batch |-> ParsedLayout(batch[i])],
                           i |-> 1]]
    /\ UNCHANGED <<users, nextUserId, bookmarks, nextBookmarkId, settings,
                   nextSettingsId, sessions, now>>

LayoutBegin(s, batch, fail) == LayoutBeginHandler(s, batch, fail) /\ UNCHANGED clientVars

\* One awaited update of the loop; after the last one the 204 is sent.
LayoutStepHandler(s, fail) ==
    /\ pend[s].op = "layout"
    /\ LET p == pend[s]
       IN IF fail
          THEN /\ resp' = InternalError("layout", s)
               /\ pend' = [pend EXCEPT ![s] = Idle]
               /\ bookmarks' = bookmarks
          ELSE /\ bookmarks' = updateBookmarkLayout(bookmarks, p.userId, p.layouts[p.i])
               /\ IF p.i = Len(p.layouts)
                  THEN /\ resp' = Response("layout", s, 204, "", NoBody, FALSE)
                       /\ pend' = [pend EXCEPT ![s] = Idle]
                  ELSE /\ resp' = Awaiting("layout", s)
                       /\ pend' = [pend EXCEPT ![s] = [p EXCEPT !.i = p.i + 1]]
    /\ UNCHANGED <<users, nextUserId, nextBookmarkId, settings, nextSettingsId,
                   sessions, now>>

LayoutStep(s, fail) == LayoutStepHandler(s, fail) /\ UNCHANGED clientVars

\* ------------------------------------------------------- settings storage
SettingsKeys == {"glowIntensity", "autoRotateSpeed", "zoomSensitivity",
                 "particleDensity", "performanceMode", "reducedMotion",
                 "highContrast"}

SettingsDefaults ==
    [glowIntensity |-> DefaultGlowIntensity,
     autoRotateSpeed |-> DefaultAutoRotateSpeed,
     zoomSensitivity |-> DefaultZoomSensitivity,
     particleDensity |-> DefaultParticleDensity,
     performanceMode |-> FALSE, reducedMotion |-> FALSE, highContrast |-> FALSE]

\* upsertSettingsSchema.parse: every column optional; particle_density is an
\* integer column (values are in hundredths).
upsertSettingsSchemaOk(body) ==
    "particleDensity" \in DOMAIN body => body.particleDensity % 100 = 0

getSettings(rows, userId) == {r \in rows : r.userId = userId}

\* The row inserted by .values({ userId, ...settings }): absent columns take
\* their defaults, updated_at takes defaultNow().
insertSettingsRowDefaults(id, userId, data, t) ==
    [k \in SettingsKeys \cup {"id", "userId", "updatedAt"} |->
        IF k = "id" THEN id
        ELSE IF k = "userId" THEN userId
        ELSE IF k = "updatedAt" THEN t
        ELSE SettingsDefaults[k]]
insertSettingsRow(id, userId, data, t) ==
    [k \in SettingsKeys \cup {"id", "userId", "updatedAt"} |->
        IF k = "id" THEN id
        ELSE IF k = "userId" THEN userId
        ELSE IF k = "updatedAt" THEN t
        ELSE IF k \in DOMAIN data THEN data[k]
        ELSE SettingsDefaults[k]]

\* .set({ ...settings, updatedAt: new Date() }).where(userId = :userId)
updateSettingsRows(rows, userId, data, t) ==
    {IF r.userId = userId
        THEN [k \in DOMAIN r |-> IF k = "updatedAt" THEN t
                                 ELSE IF k \in DOMAIN data THEN data[k] ELSE r[k]]
        ELSE r : r \in rows}

\* user_settings.user_id is declared unique().
SettingsUserUniqueOff(rows) == TRUE
SettingsUserUnique(rows) == \A q, r \in rows : q.userId = r.userId => q = r

\* upsertSettings with its read and its write run back to back.
upsertSettings(rows, id, userId, data, t) ==
    IF getSettings(rows, userId) # {}
    THEN updateSettingsRows(rows, userId, data, t)
    ELSE rows \cup {insertSettingsRow(id, userId, data, t)}

EmptyBody == [k \in {} |-> 0]

SettingsBodies ==
    { EmptyBody,
      [glowIntensity |-> 200, performanceMode |-> TRUE],
      [glowIntensity |-> 50, particleDensity |-> 5000],
      [particleDensity |-> 150] }

DefaultSettingsBody(userId) ==
    {[k \in SettingsKeys \cup {"userId"} |->
        IF k = "userId" THEN userId ELSE SettingsDefaults[k]]}

\* --------------------------------------------------------- settings routes
\* GET /api/settings (the session lookup is inside the try block).
GetSettings(s, fail) ==
    /\ pend[s] = Idle
    /\ IF sessions[s] # 0 /\ fail THEN resp' \in CaughtFailure("getSettings", s)
       ELSE IF resolveAuthenticatedUser(s) = {} THEN resp' = Unauthorized("getSettings", s)
       ELSE LET found == getSettings(settings, UserIdOf(s))
            IN resp' = Response("getSettings", s, 200, "",
                                IF found = {} THEN DefaultSettingsBody(UserIdOf(s)) ELSE found,
                                FALSE)
    /\ UNCHANGED <<users, nextUserId, bookmarks, nextBookmarkId, settings,
                   nextSettingsId, sessions, pend, now>>
    /\ UNCHANGED clientVars

\* PUT /api/settings up to the read of upsertSettings (this.getSettings).
PutSettingsRead(s, body, fail) ==
    /\ pend[s] = Idle
    /\ IF sessions[s] # 0 /\ fail
       THEN /\ resp' \in CaughtFailure("putSettings", s)
            /\ pend' = pend
       ELSE IF resolveAuthenticatedUser(s) = {}
       THEN /\ resp' = Unauthorized("putSettings", s)
            /\ pend' = pend
       ELSE IF ~upsertSettingsSchemaOk(body)
       THEN /\ resp' = Response("putSettings", s, 400, "Invalid settings payload", NoBody, FALSE)
            /\ pend' = pend
       ELSE /\ resp' = Awaiting("putSettings", s)
            /\ pend' = [pend EXCEPT ![s] =
                          [op |-> "putSettings", userId |-> UserIdOf(s),
                           data |-> Strip(body, SettingsKeys),
                           existing |-> getSettings(settings, UserIdOf(s)) # {}]]
    /\ UNCHANGED <<users, nextUserId, bookmarks, nextBookmarkId, settings,
                   nextSettingsId, sessions, now>>
    /\ UNCHANGED clientVars

\* PUT /api/settings from the write of upsertSettings to the response, at a
\* time t not before the last write.  An update that matches no row returns
\* undefined, which res.json sends as an empty 200.
PutSettingsWrite(s, t, fail) ==
    /\ pend[s].op = "putSettings"
    /\ t >= now
    /\ pend' = [pend EXCEPT ![s] = Idle]
    /\ LET p == pend[s]
       IN IF fail
          THEN /\ resp' \in CaughtFailure("putSettings", s)
               /\ UNCHANGED <<settings, nextSettingsId, now>>
          ELSE IF p.existing
          THEN /\ settings' = updateSettingsRows(settings, p.userId, p.data, t)
               /\ resp' = Response("putSettings", s, 200, "",
                                   getSettings(settings', p.userId), FALSE)
               /\ now' = t
               /\ nextSettingsId' = nextSettingsId
          ELSE /\ nextSettingsId <= MaxSettingsId
               /\ nextSettingsId' = nextSettingsId + 1
               /\ LET row == insertSettingsRow(nextSettingsId, p.userId, p.data, t)
                  IN IF SettingsUserUnique(settings \cup {row})
                     THEN /\ settings' = settings \cup {row}
                          /\ resp' = Response("putSettings", s, 200, "", {row}, FALSE)
                          /\ now' = t
                     ELSE /\ resp' = InternalError("putSettings", s)
                          /\ UNCHANGED <<settings, now>>
    /\ UNCHANGED <<users, nextUserId, bookmarks, nextBookmarkId, sessions>>
    /\ UNCHANGED clientVars

\* ------------------------------------------- client: the bookmark-list query
\* The session whose cookie the browser sends.
ClientSession == 1

\* The rows of a JSON array response in the order the SELECT returned them;
\* getBookmarks has no ORDER BY, so any order.
ListOrders(rows) ==
    {seq \in [1..Cardinality(rows) -> rows] :
        \A i, j \in 1..Cardinality(rows) : i # j => seq[i] # seq[j]}

Ids(seq) == {seq[i].id : i \in DOMAIN seq}

\* The Scene's placement of a bookmark without a stored position, for a list
\* of one category (categoryCount 1: angle 0, ring radius 5.5, spin pi/2):
\* [5.5 - row * 1.8, row even ? 0.2 : -0.1, (col - 1.5) * 1.9], in tenths,
\* z kept to the tenth below.
defaultPosition(bookmarkIndex) ==
    LET row == bookmarkIndex \div 4
        col == bookmarkIndex % 4
    IN <<55 - 18 * row, IF row % 2 = 0 THEN 2 ELSE -1, (19 * (2 * col - 3)) \div 2>>

\* The positions effect of Scene: a bookmark with a stored x, y, z that is
\* not (0, 0, 0) is placed there, any other at its default placement.
positionsEffect(list) ==
    [id \in Ids(list) |->
        LET i == CHOOSE k \in DOMAIN list : list[k].id = id
            b == list[i]
            bookmarkIndex == Cardinality({k \in 1..(i - 1) : list[k].category = b.category})
        IN IF b.x # 0 \/ b.y # 0 \/ b.z # 0 THEN <<b.x, b.y, b.z>>
           ELSE defaultPosition(bookmarkIndex)]

\* Home renders the Scene with the new query data: the positions effect runs
\* when the list has changed, a node that is no longer listed unmounts, and
\* the whole Scene remounts when the error screen comes or goes.
SceneRender ==
    /\ positions' = IF cache' = cache /\ listError' = listError THEN positions
                    ELSE positionsEffect(cache'.list)
    /\ dragging' = IF listError' # listError THEN {}
                   ELSE dragging \cap Ids(cache'.list)
    /\ movedDuringDrag' = IF listError' # listError THEN {}
                          ELSE movedDuringDrag \cap Ids(cache'.list)
    /\ UNCHANGED saves

\* onMutate's updater: (current = []) => current.filter(b => b.id !== id)
onMutate(current, id) ==
    ListOf(SelectSeq(current.list, LAMBDA b : b.id # id))

\* onError: if (context?.previousBookmarks) setQueryData(list, previousBookmarks)
onErrorKeepCurrent(current, context) == current
onError(current, context) == IF context.defined THEN context ELSE current

\* onSettled: invalidateQueries marks the list stale and refetches it for
\* the mounted Home page, replacing a fetch already in flight.
onSettledNoRefetch(fetch) == fetch
onSettled(fetch) == FetchSent

\* Home's delete button of a listed bookmark: deleteBookmark.mutate(id) up to
\* the start of mutationFn.  The list is rendered only when the query has
\* data and no error.  cancelQueries drops a list fetch in flight;
\* previousBookmarks is the query data at that moment.
DeleteMutate(m, id) ==
    /\ muts[m] = FreeSlot
    /\ \A k \in Slots : k < m => muts[k] # FreeSlot
    /\ cache.defined /\ ~listError
    /\ id \in Ids(cache.list)
    /\ listFetch' = NoFetch
    /\ muts' = [muts EXCEPT ![m] = [phase |-> "sent", id |-> id, context |-> cache]]
    /\ cache' = onMutate(cache, id)
    /\ UNCHANGED <<listError, routerVars, serverVars>>
    /\ SceneRender

\* The server handles the DELETE of slot m; res.ok only for the 204.
DeleteServe(m, fail) ==
    /\ muts[m].phase = "sent"
    /\ DeleteBookmarkHandler(ClientSession, String(muts[m].id), fail)
    /\ muts' = [muts EXCEPT ![m].phase = IF resp'.status = 204 THEN "ok" ELSE "failed"]
    /\ UNCHANGED <<cache, listFetch, listError, routerVars, sceneVars>>

\* The mutation of slot m settles: onError when mutationFn threw, then
\* onSettled in either case.
DeleteSettle(m) ==
    /\ muts[m].phase \in {"ok", "failed"}
    /\ cache' = IF muts[m].phase = "failed" THEN onError(cache, muts[m].context)
                ELSE cache
    /\ listError' = IF muts[m].phase = "failed" /\ muts[m].context.defined
                    THEN FALSE ELSE listError
    /\ listFetch' = onSettled(listFetch)
    /\ muts' = [muts EXCEPT ![m] = FreeSlot]
    /\ UNCHANGED <<routerVars, serverVars>>
    /\ SceneRender

\* The server handles the GET of the list fetch in flight.
ListServe(fail) ==
    /\ listFetch.phase = "sent"
    /\ GetBookmarksHandler(ClientSession, fail)
    /\ IF resp'.status = 200
       THEN \E seq \in ListOrders(resp'.body) :
               listFetch' = [phase |-> "got", ok |-> TRUE, list |-> seq]
       ELSE listFetch' = [phase |-> "got", ok |-> FALSE, list |-> <<>>]
    /\ UNCHANGED <<cache, muts, listError, routerVars, sceneVars>>

\* useBookmarks' queryFn returns or throws.  Whether a failed fetch is sent
\* again is an option of the QueryClient: either it is, or the query takes
\* the error and keeps its data.
ListDone(retry) ==
    /\ listFetch.phase = "got"
    /\ IF listFetch.ok
       THEN /\ ~retry
            /\ cache' = ListOf(listFetch.list)
            /\ listError' = FALSE
            /\ listFetch' = NoFetch
       ELSE /\ UNCHANGED cache
            /\ listError' = (~retry)
            /\ listFetch' = IF retry THEN FetchSent ELSE NoFetch
    /\ UNCHANGED <<muts, routerVars, serverVars>>
    /\ SceneRender

\* ------------------------------------------- client: dragging in the Scene
\* onLayoutCommit's payload: one tuple per listed bookmark that has a
\* position, with the position of the Scene and the row's scale and pinned.
layoutPayload(list, pos) ==
    LET placed == SelectSeq(list, LAMBDA b : b.id \in DOMAIN pos)
    IN [i \in DOMAIN placed |->
          [id |-> placed[i].id,
           x |-> pos[placed[i].id][1], y |-> pos[placed[i].id][2],
           z |-> pos[placed[i].id][3],
           scale |-> placed[i].scale, pinned |-> placed[i].pinned]]

\* BookmarkNode.handlePointerDown on the node of a rendered bookmark.
PointerDown(id) ==
    /\ cache.defined /\ ~listError
    /\ id \in DOMAIN positions
    /\ dragging' = dragging \cup {id}
    /\ movedDuringDrag' = movedDuringDrag \ {id}
    /\ UNCHANGED <<positions, saves, listVars, routerVars, serverVars>>

\* BookmarkNode.handlePointerMove: returns at once unless dragging; else
\* marks the drag as moved and onLayoutMove sets the node's position.
PointerMove(id, point) ==
    /\ cache.defined /\ ~listError
    /\ id \in DOMAIN positions
    /\ id \in dragging
    /\ movedDuringDrag' = movedDuringDrag \cup {id}
    /\ positions' = [positions EXCEPT ![id] = point]
    /\ UNCHANGED <<dragging, saves, listVars, routerVars, serverVars>>

\* BookmarkNode.handlePointerUp: returns at once unless dragging; ends the
\* drag and, if it moved, onLayoutCommit hands the payload to Home's
\* onLayoutSave, which starts a save mutation.  mutationFn parses the payload
\* before it fetches, so a payload the schema refuses fails without a request.
PointerUpAlwaysCommit(id) ==
    /\ cache.defined /\ ~listError
    /\ id \in DOMAIN positions
    /\ id \in dragging
    /\ dragging' = dragging \ {id}
    /\ \E m \in Slots :
          /\ saves[m] = FreeSlot
          /\ \A k \in Slots : k < m => saves[k] # FreeSlot
          /\ LET payload == layoutPayload(cache.list, positions)
             IN saves' = [saves EXCEPT ![m] =
                           [phase |-> IF layoutArrayOk(payload) THEN "sent" ELSE "failed",
                            payload |-> payload]]
    /\ UNCHANGED <<positions, movedDuringDrag, listVars, routerVars, serverVars>>
PointerUp(id) ==
    /\ cache.defined /\ ~listError
    /\ id \in DOMAIN positions
    /\ id \in dragging
    /\ dragging' = dragging \ {id}
    /\ IF id \in movedDuringDrag
       THEN \E m \in Slots :
              /\ saves[m] = FreeSlot
              /\ \A k \in Slots : k < m => saves[k] # FreeSlot
              /\ LET payload == layoutPayload(cache.list, positions)
                 IN saves' = [saves EXCEPT ![m] =
                               [phase |-> IF layoutArrayOk(payload) THEN "sent" ELSE "failed",
                                payload |-> payload]]
       ELSE saves' = saves
    /\ UNCHANGED <<positions, movedDuringDrag, listVars, routerVars, serverVars>>

\* The server handles the PUT /api/bookmarks/layout of slot m: the route up
\* to the first UPDATE, then one UPDATE at a time; res.ok only for the 204.
SaveServe(m, fail) ==
    /\ \/ /\ saves[m].phase = "sent"
          /\ LayoutBeginHandler(ClientSession, saves[m].payload, fail)
       \/ /\ saves[m].phase = "serving"
          /\ LayoutStepHandler(ClientSession, fail = "store")
    /\ saves' = [saves EXCEPT ![m].phase =
                   IF pend'[ClientSession] # Idle THEN "serving"
                   ELSE IF resp'.status = 204 THEN "ok" ELSE "failed"]
    /\ UNCHANGED <<positions, dragging, movedDuringDrag, listVars, routerVars>>

\* The save mutation of slot m settles: onSuccess invalidates the list
\* query, which refetches; onError shows a toast.
SaveSettle(m) ==
    /\ saves[m].phase \in {"ok", "failed"}
    /\ listFetch' = IF saves[m].phase = "ok" THEN FetchSent ELSE listFetch
    /\ saves' = [saves EXCEPT ![m] = FreeSlot]
    /\ UNCHANGED <<cache, muts, listError, positions, dragging, movedDuringDrag,
                   routerVars, serverVars>>

\* ------------------------------------- client: router and session query
\* wouter locations: the three routes and a path no route matches.
Locations == {"/", "/login", "/signup", "/x"}

\* useAuthSession's query: no data and its first fetch running, data null
\* (the 401), a profile, or no data and an error.
Loading == [state |-> "loading"]
NoProfile == [state |-> "none"]
ProfileOf(id) == [state |-> "user", id |-> id]
ProfileError == [state |-> "error"]

isLoading == profile = Loading
HasProfile(p) == p.state = "user"
onAuthPage(loc) == loc = "/login" \/ loc = "/signup"

\* authFetch's attempts: the path itself, then the path under the explicit
\* API base or under http://127.0.0.1:5000.
Attempts == <<"path", "base">>

\* An authFetch call that has not called fetch yet.
CallOf(op, body) ==
    [op |-> op, body |-> body, attempt |-> 1, requests |-> 0, phase |-> "ready",
     status |-> 0, user |-> 0]

\* The Router effect's decision: the location it sets.
redirectTargetHomeOnly(loading, p, loc) ==
    IF loading THEN loc
    ELSE IF HasProfile(p) /\ onAuthPage(loc) THEN "/"
    ELSE loc
redirectTargetLoginOnly(loading, p, loc) ==
    IF loading THEN loc
    ELSE IF ~HasProfile(p) /\ ~onAuthPage(loc) THEN "/login"
    ELSE loc
redirectTarget(loading, p, loc) ==
    IF loading THEN loc
    ELSE IF ~HasProfile(p) /\ ~onAuthPage(loc) THEN "/login"
    ELSE IF HasProfile(p) /\ onAuthPage(loc) THEN "/"
    ELSE loc

\* The browser loads the app at a location: Router mounts, the session
\* query starts its first fetch, the effect is due.  (Like every event of
\* the page it comes after the effects of the last render have run.)
PageLoad(loc) ==
    /\ ~effectPending
    /\ location' = loc
    /\ profile' = Loading
    /\ authCall' = CallOf("session", EmptyBody)
    /\ effectPending' = TRUE
    /\ UNCHANGED <<listVars, sceneVars, serverVars>>

\* Router's useEffect, run after a render in which isLoading, location or
\* profile changed.
RouterEffect ==
    /\ effectPending
    /\ location' = redirectTarget(isLoading, profile, location)
    /\ effectPending' = (location' # location)
    /\ UNCHANGED <<profile, authCall, listVars, sceneVars, serverVars>>

\* The "Create one" button of Login and the login button of Signup; the two
\* pages are routed only while there is no profile.
Navigate(loc) ==
    /\ ~effectPending /\ ~isLoading /\ ~HasProfile(profile)
    /\ \/ location = "/login" /\ loc = "/signup"
       \/ location = "/signup" /\ loc = "/login"
    /\ location' = loc
    /\ effectPending' = TRUE
    /\ UNCHANGED <<profile, authCall, listVars, sceneVars, serverVars>>

\* Login's and Signup's onSubmit: the mutation parses the input, which
\* throws on a payload the schema refuses, then calls authFetch.
Submit(op, body) ==
    /\ ~effectPending /\ ~isLoading /\ ~HasProfile(profile)
    /\ authCall = NoCall
    /\ \/ op = "login" /\ location = "/login" /\ loginSchemaOk(body)
       \/ op = "signup" /\ location = "/signup" /\ signupSchemaOk(body)
    /\ authCall' = CallOf(op, body)
    /\ UNCHANGED <<location, profile, effectPending, listVars, sceneVars, serverVars>>

\* authFetch calls fetch on the current attempt's URL.
AuthFetchSend ==
    /\ authCall # NoCall /\ authCall.phase = "ready"
    /\ authCall' = [authCall EXCEPT !.phase = "sent", !.requests = @ + 1]
    /\ UNCHANGED <<location, profile, effectPending, listVars, sceneVars, serverVars>>

\* fetch throws (the request did not get through): authFetch goes on to the
\* next attempt, or throws lastError after the last one.
AuthFetchThrow ==
    /\ authCall # NoCall /\ authCall.phase = "sent"
    /\ pend[ClientSession] = Idle
    /\ authCall' = IF authCall.attempt < Len(Attempts)
                   THEN [authCall EXCEPT !.attempt = @ + 1, !.phase = "ready"]
                   ELSE [authCall EXCEPT !.phase = "threw"]
    /\ UNCHANGED <<location, profile, effectPending, listVars, sceneVars, serverVars>>

\* The server handles the request of the current attempt.  A handler that
\* sends nothing (status 0 with no await pending) leaves fetch to throw.
AuthServe(fail) ==
    /\ authCall # NoCall /\ authCall.phase = "sent"
    /\ \/ authCall.op = "session" /\ GetProfileHandler(ClientSession, fail)
       \/ authCall.op = "login" /\ LoginHandler(ClientSession, authCall.body, fail)
       \/ authCall.op = "signup" /\ SignupLookupHandler(ClientSession, authCall.body, fail)
       \/ authCall.op = "signup" /\ SignupCreateHandler(ClientSession, fail)
    /\ authCall' =
         IF pend'[ClientSession] # Idle THEN authCall
         ELSE IF resp'.status = 0
         THEN IF authCall.attempt < Len(Attempts)
              THEN [authCall EXCEPT !.attempt = @ + 1, !.phase = "ready"]
              ELSE [authCall EXCEPT !.phase = "threw"]
         ELSE [authCall EXCEPT !.phase = "got", !.status = resp'.status,
                               !.user = sessions'[ClientSession]]
    /\ UNCHANGED <<location, profile, effectPending, listVars, sceneVars>>

\* The session query's fetch settles.  useAuthSession's queryFn returns null
\* on a 401; useProfile, which Home mounts on the same query key, throws on
\* it, and a query that throws keeps the data it had.  Whether a query that
\* threw is fetched again is an option of the QueryClient.
SessionSettle(asProfile, retry) ==
    /\ ~effectPending
    /\ authCall # NoCall /\ authCall.op = "session"
    /\ authCall.phase \in {"got", "threw"}
    /\ asProfile => (~isLoading /\ location = "/")
    /\ LET threw == \/ authCall.phase = "threw"
                    \/ authCall.status \notin {200, 401}
                    \/ authCall.status = 401 /\ asProfile
       IN /\ retry => threw
          /\ profile' = IF retry THEN profile
                        ELSE IF threw THEN (IF isLoading THEN ProfileError ELSE profile)
                        ELSE IF authCall.status = 401 THEN NoProfile
                        ELSE ProfileOf(authCall.user)
          /\ authCall' = IF retry THEN CallOf("session", EmptyBody) ELSE NoCall
    /\ effectPending' = (profile' # profile)
    /\ UNCHANGED <<location, listVars, sceneVars, serverVars>>

\* useLogin / useSignup settle: on success the hook invalidates the session
\* query, which refetches, and the page's onSuccess sets the location to "/";
\* on an error the page shows a toast.
SubmitSettle ==
    /\ ~effectPending
    /\ authCall # NoCall /\ authCall.op \in {"login", "signup"}
    /\ authCall.phase \in {"got", "threw"}
    /\ IF authCall.phase = "got" /\ authCall.status \in {200, 201}
       THEN /\ authCall' = CallOf("session", EmptyBody)
            /\ location' = "/"
            /\ effectPending' = TRUE
       ELSE /\ authCall' = NoCall
            /\ UNCHANGED <<location, effectPending>>
    /\ UNCHANGED <<profile, listVars, sceneVars, serverVars>>

\* Home's Logout item: one fetch of POST /api/logout; on the 204 the page
\* invalidates every query and reloads.
ClientLogout(fail) ==
    /\ ~effectPending /\ ~isLoading /\ location = "/"
    /\ authCall = NoCall
    /\ LogoutHandler(ClientSession, fail)
    /\ IF resp'.status = 204
       THEN /\ profile' = Loading
            /\ authCall' = CallOf("session", EmptyBody)
            /\ effectPending' = TRUE
       ELSE UNCHANGED <<profile, authCall, effectPending>>
    /\ UNCHANGED <<location, listVars, sceneVars>>

\* -------------------------------------------------------- specifications
\* Signup, login, logout and profile over an initially empty users table.
NextAuth ==
    \/ \E s \in Sessions, body \in SignupBodies, fail \in BOOLEAN : SignupLookup(s, body, fail)
    \/ \E s \in Sessions, fail \in BOOLEAN : SignupCreate(s, fail)
    \/ \E s \in Sessions, body \in LoginBodies, fail \in BOOLEAN : Login(s, body, fail)
    \/ \E s \in Sessions, fail \in BOOLEAN : Logout(s, fail)
    \/ \E s \in Sessions, fail \in BOOLEAN : GetProfile(s, fail)

SpecAuth == Init /\ [][NextAuth]_vars

\* Two users have signed up (as a@x.io and b@X.io) and have logged out.
RegisteredUsers ==
    { createUserRow(1, [name |-> "n", email |-> <<97, 64, 120, 46, 105, 111>>],
                    hashPassword("password1", 1)),
      createUserRow(2, [name |-> "n", email |-> <<98, 64, 88, 46, 105, 111>>],
                    hashPassword("password1", 2)) }

InitRegistered ==
    /\ users = RegisteredUsers
    /\ nextUserId = 3
    /\ bookmarks = {}
    /\ nextBookmarkId = 1
    /\ settings = {}
    /\ nextSettingsId = 1
    /\ sessions = [s \in Sessions |-> 0]
    /\ pend = [s \in Sessions |-> Idle]
    /\ resp = Response("none", 1, 0, "", NoBody, FALSE)
    /\ now = 0
    /\ ClientIdle

SessionLoginBodies ==
    { [email |-> <<65, 64, 120, 46, 105, 111>>, password |-> "password1"],
      [email |-> <<98, 64, 88, 46, 105, 111>>, password |-> "password1"] }

\* The bookmark routes, with login and logout moving the sessions.
Next ==
    \/ \E s \in Sessions, body \in SessionLoginBodies : Login(s, body, FALSE)
    \/ \E s \in Sessions : Logout(s, FALSE)
    \/ \E s \in Sessions, fail \in {"none"} : GetBookmarks(s, fail)
    \/ \E s \in Sessions, body \in CreateBodies, fail \in {"none"} : CreateBookmark(s, body, fail)
    \/ \E s \in Sessions, id \in IdParams, body \in UpdateBodies, fail \in {"none"} :
          UpdateBookmark(s, id, body, fail)
    \/ \E s \in Sessions, id \in IdParams, fail \in {"none"} : DeleteBookmark(s, id, fail)
    \/ \E s \in Sessions, batch \in LayoutBatches, fail \in {"none"} : LayoutBegin(s, batch, fail)
    \/ \E s \in Sessions, fail \in {FALSE} : LayoutStep(s, fail)

Spec == InitRegistered /\ [][Next]_vars

\* The settings routes, from states in which session 1 is logged in as the
\* first user and session 2 as the same user, as the second, or as nobody.
InitSettings ==
    /\ users = RegisteredUsers
    /\ nextUserId = 3
    /\ bookmarks = {}
    /\ nextBookmarkId = 1
    /\ settings = {}
    /\ nextSettingsId = 1
    /\ sessions \in {[s \in Sessions |-> IF s = 1 THEN 1 ELSE u] : u \in 0..2}
    /\ pend = [s \in Sessions |-> Idle]
    /\ resp = Response("none", 1, 0, "", NoBody, FALSE)
    /\ now = 0
    /\ ClientIdle

NextSettings ==
    \/ \E s \in Sessions, fail \in BOOLEAN : GetSettings(s, fail)
    \/ \E s \in Sessions, body \in SettingsBodies, fail \in BOOLEAN :
          PutSettingsRead(s, body, fail)
    \/ \E s \in Sessions, t \in 0..MaxClock, fail \in BOOLEAN : PutSettingsWrite(s, t, fail)

SpecSettings == InitSettings /\ [][NextSettings]_vars

\* Every gated route together, on small inputs, with storage calls that may
\* reject, requested by a logged-in and by an anonymous session.
GateUpdateBodies == { [title |-> "t3"], [scale |-> NotNumber] }
GateLayoutBatches == { <<L1>>, <<L2big>> }
GateSettingsBodies == { EmptyBody, [particleDensity |-> 150] }

\* Session 1 has logged in as the first user, session 2 is anonymous.
InitGate ==
    /\ users = RegisteredUsers
    /\ nextUserId = 3
    /\ bookmarks = {}
    /\ nextBookmarkId = 1
    /\ settings = {}
    /\ nextSettingsId = 1
    /\ sessions = [s \in Sessions |-> IF s = 1 THEN 1 ELSE 0]
    /\ pend = [s \in Sessions |-> Idle]
    /\ resp = Response("none", 1, 0, "", NoBody, FALSE)
    /\ now = 0
    /\ ClientIdle

NextGate ==
    \/ \E s \in Sessions, fail \in BOOLEAN : GetProfile(s, fail)
    \/ \E s \in Sessions, fail \in BOOLEAN : GetSettings(s, fail)
    \/ \E s \in Sessions, body \in GateSettingsBodies, fail \in BOOLEAN :
          PutSettingsRead(s, body, fail)
    \/ \E s \in Sessions, fail \in BOOLEAN : PutSettingsWrite(s, now, fail)
    \/ \E s \in Sessions, fail \in FailPoints : GetBookmarks(s, fail)
    \/ \E s \in Sessions, body \in CreateBodies, fail \in FailPoints : CreateBookmark(s, body, fail)
    \/ \E s \in Sessions, id \in IdParams, body \in GateUpdateBodies, fail \in FailPoints :
          UpdateBookmark(s, id, body, fail)
    \/ \E s \in Sessions, id \in IdParams, fail \in FailPoints : DeleteBookmark(s, id, fail)
    \/ \E s \in Sessions, batch \in GateLayoutBatches, fail \in FailPoints :
          LayoutBegin(s, batch, fail)
    \/ \E s \in Sessions, fail \in BOOLEAN : LayoutStep(s, fail)

SpecGate == InitGate /\ [][NextGate]_vars

\* ------------------------------------------------------------- properties
Authenticated(s) == \E u \in users : u.id = sessions[s] /\ sessions[s] # 0

\* C1: whenever a bookmark list fetch has just answered 200 to a session
\* logged in as V, the body is exactly the set of stored bookmarks owned by V
\* and holds no bookmark owned by a different user U.
C1_FetchReturnsOwnOnly ==
    (resp.op = "getBookmarks" /\ resp.status = 200) =>
        /\ resp.body = {b \in bookmarks : b.userId = String(sessions[resp.sess])}
        /\ \A u \in users : u.id # sessions[resp.sess] =>
              \A b \in resp.body : b.userId # String(u.id)

C1_Witness ==
    /\ resp.op = "getBookmarks"
    /\ resp.status = 200
    /\ resp.body # {}
    /\ \E b \in bookmarks : b \notin resp.body

\* C2: a DELETE by an authenticated user whose (numeric) id names no stored
\* bookmark, or a bookmark of another user, answers 404 and leaves the
\* bookmarks table as it was.
C2_DeleteForeignIsNotFound ==
    [][\A s \in Sessions, idParam \in IdParams :
          ( /\ resp'.op = "deleteBookmark" /\ resp'.sess = s
            /\ DeleteBookmark(s, idParam, "none")
            /\ Authenticated(s)
            /\ parseInt(idParam) # NaN
            /\ \/ \A b \in bookmarks : b.id # parseInt(idParam)
               \/ \E b \in bookmarks : b.id = parseInt(idParam)
                                       /\ b.userId # String(sessions[s]) )
          => (resp'.status = 404 /\ bookmarks' = bookmarks)]_vars

C2_Witness ==
    /\ resp.op = "deleteBookmark"
    /\ resp.status = 404
    /\ sessions[resp.sess] # 0
    /\ \E b \in bookmarks : b.id = 1 /\ b.userId # String(sessions[resp.sess])

\* C3: a PUT /api/bookmarks/:id by an authenticated user U leaves every row
\* other than the one with that id owned by U exactly as it was and adds or
\* removes no row; and when the body is well formed and the id names no
\* bookmark of U it answers 404 and changes nothing.
C3_UpdateOnlyOwnRow ==
    [][\A s \in Sessions, idParam \in IdParams, body \in UpdateBodies :
          ( /\ resp'.op = "updateBookmark" /\ resp'.sess = s
            /\ UpdateBookmark(s, idParam, body, "none")
            /\ Authenticated(s) )
          => /\ \A b \in bookmarks :
                  (b.id # parseInt(idParam) \/ b.userId # String(sessions[s]))
                      => b \in bookmarks'
             /\ \A c \in bookmarks' \ bookmarks :
                  /\ c.id = parseInt(idParam)
                  /\ c.userId = String(sessions[s])
                  /\ \E b \in bookmarks \ bookmarks' : b.id = c.id /\ b.userId = c.userId
             /\ Cardinality(bookmarks') = Cardinality(bookmarks)
             /\ ( /\ parseInt(idParam) # NaN
                  /\ \A k \in NumberKeys \cap DOMAIN body : body[k] # NotNumber
                  /\ ~\E b \in bookmarks : b.id = parseInt(idParam)
                                           /\ b.userId = String(sessions[s]) )
                => (resp'.status = 404 /\ bookmarks' = bookmarks)]_vars

C3_Witness ==
    /\ resp.op = "updateBookmark"
    /\ resp.status = 404
    /\ sessions[resp.sess] # 0
    /\ \E b \in bookmarks : b.id = 2 /\ b.userId # String(sessions[resp.sess])
    /\ \E b \in bookmarks : b.id = 1 /\ b.title = "t3"

ScaleOutOfRange(batch) ==
    \E i \in DOMAIN batch :
        "scale" \in DOMAIN batch[i]
        /\ (batch[i].scale < ScaleMin \/ batch[i].scale > ScaleMax)

\* C4: a layout batch from an authenticated user with some scale outside
\* [0.2, 3] is answered 400 without any write, and no write of it follows:
\* the handler is not left in its update loop, and no batch that is in the
\* loop carries such a scale.
C4_BadScaleRejectsBatch ==
    [][/\ \A s \in Sessions, batch \in LayoutBatches :
            ( /\ resp'.op = "layout" /\ resp'.sess = s /\ pend[s] = Idle
              /\ LayoutBegin(s, batch, "none")
              /\ Authenticated(s)
              /\ ScaleOutOfRange(batch) )
            => (resp'.status = 400 /\ bookmarks' = bookmarks /\ pend'[s] = Idle)
       /\ \A s \in Sessions :
            pend'[s].op = "layout" =>
                \A i \in DOMAIN pend'[s].layouts :
                    /\ pend'[s].layouts[i].scale >= ScaleMin
                    /\ pend'[s].layouts[i].scale <= ScaleMax]_vars

C4_Witness ==
    /\ resp.op = "layout"
    /\ resp.status = 400
    /\ \E b \in bookmarks : /\ b.id = L1.id
                            /\ b.userId = String(sessions[resp.sess])
                            /\ b.x # L1.x
    /\ \E b \in bookmarks : b.id = L2big.id

SameIdentity(b, c) ==
    /\ c.id = b.id
    /\ c.userId = b.userId
    /\ c.title = b.title
    /\ c.url = b.url
    /\ c.category = b.category

\* C5: each write of a layout batch of user U leaves every row that is not
\* the one named by the current tuple and owned by U exactly as it was,
\* keeps id, owner, title, url and category of the row it does write, and
\* adds or removes no row; the user of the batch is the user of the session.
C5_LayoutFrame ==
    [][\A s \in Sessions :
          /\ pend[s].op = "layout" => pend[s].userId = String(sessions[s])
          /\ (resp'.op = "layout" /\ resp'.sess = s /\ pend[s] # Idle /\ LayoutStep(s, FALSE)) =>
              LET p == pend[s]
                  t == p.layouts[p.i]
              IN /\ \A b \in bookmarks :
                       IF b.id = t.id /\ b.userId = p.userId
                       THEN \E c \in bookmarks' : SameIdentity(b, c)
                       ELSE b \in bookmarks'
                 /\ Cardinality(bookmarks') = Cardinality(bookmarks)]_vars

C5_Witness ==
    /\ resp.op = "layout"
    /\ resp.status = 204
    /\ \E b \in bookmarks : /\ b.id = L1.id
                            /\ b.userId = String(sessions[resp.sess])
                            /\ b.x = L1.x /\ b.pinned = L1.pinned
                            /\ b.title = "t3"
    /\ \E b \in bookmarks : /\ b.id = L2.id
                            /\ b.userId # String(sessions[resp.sess])
                            /\ b.x # L2.x

\* C6: a well-formed layout batch is answered 204 whoever owns the rows it
\* names and whether or not they exist (nothing but 204 is ever sent for
\* it), and each tuple that names a row of the caller is written to it.
C6_ForeignTuplesSkipped ==
    [][\A s \in Sessions :
          /\ \A batch \in LayoutBatches :
                ( /\ resp'.op = "layout" /\ resp'.sess = s /\ pend[s] = Idle
                  /\ LayoutBegin(s, batch, "none")
                  /\ Authenticated(s)
                  /\ ~ScaleOutOfRange(batch) )
                => /\ resp'.status = IF batch = <<>> THEN 204 ELSE 0
                   /\ batch # <<>> => /\ pend'[s].op = "layout"
                                      /\ Len(pend'[s].layouts) = Len(batch)
          /\ (resp'.op = "layout" /\ resp'.sess = s /\ pend[s] # Idle /\ LayoutStep(s, FALSE)) =>
              LET p == pend[s]
                  t == p.layouts[p.i]
              IN /\ resp'.status = IF p.i = Len(p.layouts) THEN 204 ELSE 0
                 /\ p.i < Len(p.layouts) => pend'[s].i = p.i + 1
                 /\ \A b \in bookmarks :
                       (b.id = t.id /\ b.userId = p.userId) =>
                          \E c \in bookmarks' :
                             /\ SameIdentity(b, c)
                             /\ c.x = t.x /\ c.y = t.y /\ c.z = t.z
                             /\ c.scale = t.scale /\ c.pinned = t.pinned]_vars

C6_Witness ==
    /\ resp.op = "layout"
    /\ resp.status = 204
    /\ \E b \in bookmarks : /\ b.id = L1.id
                            /\ b.userId = String(sessions[resp.sess])
                            /\ b.x = L1.x /\ b.scale = L1.scale /\ b.pinned = L1.pinned
    /\ ~\E b \in bookmarks : b.id = L2.id

\* C7: a request of any gated route (profile, settings get and put, bookmark
\* list, create, update, delete, layout) made with an anonymous session is
\* answered 401 and changes no table, no serial and starts no write,
\* whatever its id and payload and whether or not storage calls would fail.
C7_AnonymousRejected ==
    [][\A s \in Sessions :
          ( /\ sessions[s] = 0
            /\ resp'.sess = s
            /\ \/ \E f \in BOOLEAN : GetProfile(s, f)
               \/ \E f \in BOOLEAN : GetSettings(s, f)
               \/ \E body \in GateSettingsBodies, f \in BOOLEAN : PutSettingsRead(s, body, f)
               \/ \E f \in FailPoints : GetBookmarks(s, f)
               \/ \E body \in CreateBodies, f \in FailPoints : CreateBookmark(s, body, f)
               \/ \E id \in IdParams, body \in GateUpdateBodies, f \in FailPoints :
                     UpdateBookmark(s, id, body, f)
               \/ \E id \in IdParams, f \in FailPoints : DeleteBookmark(s, id, f)
               \/ \E batch \in GateLayoutBatches, f \in FailPoints : LayoutBegin(s, batch, f) )
          => /\ resp'.status = 401
             /\ bookmarks' = bookmarks
             /\ settings' = settings
             /\ nextBookmarkId' = nextBookmarkId
             /\ nextSettingsId' = nextSettingsId
             /\ pend'[s] = Idle]_vars

C7_Witness ==
    /\ resp.status = 401
    /\ resp.op = "deleteBookmark"
    /\ sessions[resp.sess] = 0
    /\ \E b \in bookmarks : b.id = 1
    /\ settings # {}

\* C8: a well-formed signup whose email equals, up to letter case, the email
\* of a stored user is answered 409 when its lookup completes, inserts no
\* user (none then or later: the handler is finished) and leaves the
\* session as it was.
C8_SignupConflict ==
    [][\A s \in Sessions, body \in SignupBodies, f \in BOOLEAN :
          ( /\ resp'.op = "signup" /\ resp'.sess = s
            /\ SignupLookup(s, body, f)
            /\ signupSchemaOk(body)
            /\ \E u \in users : toLowerCase(u.email) = toLowerCase(body.email) )
          => /\ ~f => resp'.status = 409
             /\ f => resp'.status = 500
             /\ users' = users
             /\ sessions' = sessions
             /\ pend'[s] = Idle]_vars

C8_Witness ==
    /\ resp.op = "signup"
    /\ resp.status = 409
    /\ sessions[resp.sess] = 0
    /\ Cardinality(users) = 1

\* C9: every stored user email is its own lowercase form and no two user
\* rows share an email, also after signups that interleave.
C9_EmailsLowercaseUnique ==
    /\ \A u \in users : u.email = toLowerCase(u.email)
    /\ \A u, v \in users : u.email = v.email => u = v

\* One of two interleaved signups for one email was refused by the unique
\* index: its serial id was taken but no row was stored.
C9_Witness ==
    /\ Cardinality(users) = 1
    /\ nextUserId = 3
    /\ resp.op = "signup"
    /\ resp.status = 500

SettingsValues(rows) ==
    {[k \in (DOMAIN r) \ {"updatedAt"} |-> r[k]] : r \in rows}

\* C10: in every reachable state, for every user and every valid payload P,
\* upserting P twice in a row (at times t1 <= t2) leaves the same settings
\* rows, in every column but the updatedAt timestamp, as upserting it once,
\* whether or not the user already has a row.
C10_UpsertIdempotent ==
    \A u \in users, body \in SettingsBodies, t1 \in now..MaxClock :
      \A t2 \in t1..MaxClock :
        upsertSettingsSchemaOk(body) =>
            LET P == Strip(body, SettingsKeys)
                once == upsertSettings(settings, nextSettingsId, String(u.id), P, t1)
                twice == upsertSettings(once, nextSettingsId + 1, String(u.id), P, t2)
            IN SettingsValues(twice) = SettingsValues(once)

C10_Witness ==
    /\ resp.op = "putSettings"
    /\ resp.status = 200
    /\ \E r \in settings : /\ resp.body = {r}
                           /\ r.glowIntensity = 200
                           /\ r.particleDensity = 5000
                           /\ r.updatedAt > 0
    /\ \E u \in users : getSettings(settings, String(u.id)) = {}

\* C11: in every reachable state each user has at most one settings row, and
\* no step removes a settings row (its id and owner stay in the table), also
\* when two writes of one user both read "no row" before either inserts.
C11_OneSettingsRowNeverDeleted ==
    [][ /\ \A u \in users : Cardinality(getSettings(settings', String(u.id))) <= 1
        /\ \A r \in settings : \E q \in settings' : q.id = r.id /\ q.userId = r.userId
      ]_vars

\* Two writes of the first user both read "no row"; one insert was stored and
\* the other consumed an id and was refused by the unique index.
C11_Witness ==
    /\ Cardinality(settings) = 1
    /\ nextSettingsId = 3
    /\ \A s \in Sessions : sessions[s] = 1 /\ pend[s] = Idle
    /\ resp.op = "putSettings" /\ resp.status = 500

\* ----------------------------------------- the client's list specification
\* The first user's bookmarks when the Home page loads.
ListedBookmarks ==
    { createBookmarkRow(i, [title |-> "t1", url |-> "u1", category |-> "c1"], String(1)) :
        i \in 1..MaxListed }

\* The first user is logged in on the client's session and Home has mounted:
\* the list query has no data yet and its first fetch is in flight.
InitList ==
    /\ users = RegisteredUsers
    /\ nextUserId = 3
    /\ bookmarks = ListedBookmarks
    /\ nextBookmarkId = MaxListed + 1
    /\ settings = {}
    /\ nextSettingsId = 1
    /\ sessions = [s \in Sessions |-> IF s = ClientSession THEN 1 ELSE 0]
    /\ pend = [s \in Sessions |-> Idle]
    /\ resp = Response("none", 1, 0, "", NoBody, FALSE)
    /\ now = 0
    /\ cache = NoList
    /\ muts = [m \in Slots |-> FreeSlot]
    /\ listFetch = FetchSent
    /\ listError = FALSE
    /\ location = "/"
    /\ profile = [state |-> "loading"]
    /\ effectPending = FALSE
    /\ authCall = NoCall
    /\ positions = <<>>
    /\ dragging = {}
    /\ movedDuringDrag = {}
    /\ saves = [m \in Slots |-> FreeSlot]

NextList ==
    \/ \E m \in Slots, id \in 1..MaxListed : DeleteMutate(m, id)
    \/ \E m \in Slots, fail \in FailPoints : DeleteServe(m, fail)
    \/ \E m \in Slots : DeleteSettle(m)
    \/ \E fail \in FailPoints : ListServe(fail)
    \/ \E retry \in BOOLEAN : ListDone(retry)

SpecList == InitList /\ [][NextList]_vars

\* C12: an optimistic delete captures the list as it is just before its
\* removal and takes exactly its bookmark out; when its server call fails,
\* the cached list becomes that captured list again: the bookmark is back at
\* its index and every other entry is where it was.
C12_RollbackRestoresSnapshot ==
    [][\A m \in Slots :
         /\ (muts[m] = FreeSlot /\ muts'[m] # FreeSlot)
               => /\ muts'[m].context = cache
                  /\ \E i \in DOMAIN cache.list :
                        /\ cache.list[i].id = muts'[m].id
                        /\ cache'.list = [j \in 1..(Len(cache.list) - 1) |->
                                            IF j < i THEN cache.list[j]
                                            ELSE cache.list[j + 1]]
         /\ (muts[m] # FreeSlot /\ muts'[m] # FreeSlot)
               => muts'[m].context = muts[m].context /\ muts'[m].id = muts[m].id
         /\ (muts[m] # FreeSlot /\ muts[m].phase = "failed" /\ muts'[m] = FreeSlot)
               => /\ cache' = muts[m].context
                  /\ muts[m].id \in Ids(cache'.list)
      ]_vars

\* A delete failed after another one had changed the cached list, and the
\* rollback has put the captured list of two bookmarks back.
C12_Witness ==
    /\ resp.op = "deleteBookmark" /\ resp.status = 500
    /\ \A m \in Slots : muts[m] = FreeSlot
    /\ cache.defined /\ Len(cache.list) = 2
    /\ Cardinality(bookmarks) = 1

\* A cached entry is a phantom when the server has confirmed the deletion of
\* its bookmark (its row is gone from the table) or when a delete of it is
\* still in flight.
Phantom(list, slots, id) ==
    /\ id \in Ids(list)
    /\ \/ id \notin {b.id : b \in bookmarks}
       \/ \E k \in Slots : slots[k] # FreeSlot /\ slots[k].id = id

\* C13: whatever the interleaving of the optimistic deletes of one client,
\* the list a rollback leaves in the cache has no bookmark id twice and no
\* phantom entry.
C13_RollbackNoDuplicateNoPhantom ==
    [][\A m \in Slots :
         (muts[m] # FreeSlot /\ muts[m].phase = "failed" /\ muts'[m] = FreeSlot)
            => /\ \A i, j \in DOMAIN cache'.list :
                     cache'.list[i].id = cache'.list[j].id => i = j
               /\ \A id \in 1..MaxListed : ~Phantom(cache'.list, muts', id)
      ]_vars

\* The list specification under the scheduling the claim assumes: every
\* request sent is answered or fails, every answer is delivered to its
\* callbacks, and the list fetch itself succeeds.
NextListFair ==
    \/ \E m \in Slots, id \in 1..MaxListed : DeleteMutate(m, id)
    \/ \E m \in Slots, fail \in FailPoints : DeleteServe(m, fail)
    \/ \E m \in Slots : DeleteSettle(m)
    \/ ListServe("none")
    \/ ListDone(FALSE)

SpecListFair ==
    /\ InitList
    /\ [][NextListFair]_vars
    /\ \A m \in Slots : WF_vars(\E fail \in FailPoints : DeleteServe(m, fail))
    /\ \A m \in Slots : WF_vars(DeleteSettle(m))
    /\ WF_vars(ListServe("none"))
    /\ WF_vars(ListDone(FALSE))

NoDeleteInFlight == \A m \in Slots : muts[m] = FreeSlot

CacheIsServerList ==
    /\ cache.defined
    /\ {cache.list[i] : i \in DOMAIN cache.list} = getBookmarks(bookmarks, String(1))
    /\ Len(cache.list) = Cardinality(getBookmarks(bookmarks, String(1)))

\* C14: a delete that settles, after a success as after a failure, starts a
\* fetch of the bookmark list; and once no delete is in flight any more, the
\* cached list comes to equal the rows the server stores for the user and
\* stays so.
C14_SettledDeleteReconciles ==
    /\ [][\A m \in Slots :
            (muts[m] # FreeSlot /\ muts'[m] = FreeSlot) => listFetch' = FetchSent]_vars
    /\ (<>[]NoDeleteInFlight => <>[]CacheIsServerList)

\* A delete was confirmed, another was rolled back, and the refetch has
\* brought the cache to the one row the server still stores.
C14_Witness ==
    /\ NoDeleteInFlight
    /\ listFetch = NoFetch
    /\ Cardinality(bookmarks) = 1
    /\ CacheIsServerList
    /\ resp.op = "getBookmarks"

\* C15: a session's user changes to a user only in the step that answers a
\* login with 200 or a signup with 201 on that session; it is then the user
\* whose email and password the login carried, or the user the signup has
\* just created; a login or signup answered otherwise leaves every session's
\* authentication state as it was.
C15_AuthenticatedOnlyByLoginOrSignup ==
    [][\A s \in Sessions :
         /\ (sessions'[s] # sessions[s] /\ sessions'[s] # 0)
               => /\ resp'.sess = s
                  /\ \/ resp'.op = "login" /\ resp'.status = 200
                     \/ resp'.op = "signup" /\ resp'.status = 201
                  /\ \E u \in users' : u.id = sessions'[s] /\ resp'.body = ProfileBody(u)
         /\ \A body \in LoginBodies :
               ( /\ resp'.op = "login" /\ resp'.sess = s /\ resp'.status = 200
                 /\ LoginHandler(s, body, FALSE) )
               => \E u \in users : /\ sessions'[s] = u.id
                                   /\ u.email = toLowerCase(body.email)
                                   /\ u.passwordHash.hash = body.password
         /\ (resp'.op = "signup" /\ resp'.sess = s /\ resp'.status = 201)
               => \E u \in users' \ users :
                     /\ sessions'[s] = u.id
                     /\ u.email = toLowerCase(pend[s].data.email)
         /\ ( /\ resp'.op \in {"login", "signup"} /\ resp'.sess = s
              /\ resp'.status \notin {200, 201} )
               => sessions' = sessions
      ]_vars

\* A login was refused with 401 on a session that a signup had
\* authenticated, and the session is still that user's.
C15_Witness ==
    /\ resp.op = "login" /\ resp.status = 401
    /\ sessions[resp.sess] # 0
    /\ \E u \in users : u.id = sessions[resp.sess]

\* Login, logout and every route behind the session lookup, on both sessions,
\* over a table that holds one bookmark of the first user.
SessionLayoutBatches == { <<L1>> }
SessionCreateBodies == { [url |-> "u1", category |-> "c1"] }
\* Each session sends its own settings payload.
SessionSettingsBody(s) == IF s = 1 THEN EmptyBody ELSE [glowIntensity |-> 200]

InitSession ==
    /\ users = RegisteredUsers
    /\ nextUserId = 3
    /\ bookmarks = { createBookmarkRow(1, [title |-> "t1", url |-> "u1", category |-> "c1"],
                                       String(1)) }
    /\ nextBookmarkId = 2
    /\ settings = {}
    /\ nextSettingsId = 1
    /\ sessions = [s \in Sessions |-> 0]
    /\ pend = [s \in Sessions |-> Idle]
    /\ resp = Response("none", 1, 0, "", NoBody, FALSE)
    /\ now = 0
    /\ ClientIdle

NextSession ==
    \/ \E s \in Sessions, body \in SessionLoginBodies : Login(s, body, FALSE)
    \/ \E s \in Sessions, fail \in BOOLEAN : Logout(s, fail)
    \/ \E s \in Sessions, fail \in BOOLEAN : GetProfile(s, fail)
    \/ \E s \in Sessions, fail \in BOOLEAN : GetSettings(s, fail)
    \/ \E s \in Sessions, fail \in BOOLEAN : PutSettingsRead(s, SessionSettingsBody(s), fail)
    \/ \E s \in Sessions, fail \in BOOLEAN : PutSettingsWrite(s, now, fail)
    \/ \E s \in Sessions, fail \in FailPoints : GetBookmarks(s, fail)
    \/ \E s \in Sessions, body \in SessionCreateBodies, fail \in FailPoints :
          CreateBookmark(s, body, fail)
    \/ \E s \in Sessions, id \in IdParams, fail \in FailPoints :
          UpdateBookmark(s, id, [title |-> "t3"], fail)
    \/ \E s \in Sessions, id \in IdParams, fail \in FailPoints : DeleteBookmark(s, id, fail)
    \/ \E s \in Sessions, batch \in SessionLayoutBatches, fail \in FailPoints :
          LayoutBegin(s, batch, fail)
    \/ \E s \in Sessions, fail \in BOOLEAN : LayoutStep(s, fail)

SpecSession == InitSession /\ [][NextSession]_vars

GatedOps == {"profile", "getSettings", "putSettings", "getBookmarks",
             "createBookmark", "updateBookmark", "deleteBookmark", "layout"}

\* C16: a logout answered 204 leaves its session without a user; a session
\* without a user gets one only in the step that answers a login with 200 or
\* a signup with 201 on it; and as long as it has none, every profile,
\* settings and bookmark request carrying it is answered 401 and changes no
\* table.
C16_LoggedOutIsUnauthorized ==
    [][\A s \in Sessions :
         /\ (resp'.op = "logout" /\ resp'.sess = s /\ resp'.status = 204)
               => sessions'[s] = 0
         /\ (sessions[s] = 0 /\ sessions'[s] # 0)
               => /\ resp'.sess = s
                  /\ \/ resp'.op = "login" /\ resp'.status = 200
                     \/ resp'.op = "signup" /\ resp'.status = 201
         /\ (sessions[s] = 0 /\ resp'.sess = s /\ resp'.op \in GatedOps)
               => /\ resp'.status = 401
                  /\ UNCHANGED <<bookmarks, settings, users>>
      ]_vars

\* The second session had logged in (its settings payload is stored), has
\* logged out, and its request for the bookmarks was answered 401.
C16_Witness ==
    /\ \E r \in settings : r.glowIntensity = 200
    /\ sessions[2] = 0
    /\ resp.sess = 2 /\ resp.op = "getBookmarks" /\ resp.status = 401

\* --------------------------------------- the client's router specification
RouterLoginBodies ==
    { [email |-> <<65, 64, 120, 46, 105, 111>>, password |-> "password1"],
      [email |-> <<65, 64, 120, 46, 105, 111>>, password |-> "password2"],
      [email |-> BadEmail, password |-> "password1"] }

RouterSignupBodies ==
    { [name |-> "n", email |-> <<98, 64, 88, 46, 105, 111>>, password |-> "password1"],
      [name |-> "n", email |-> <<97, 64, 120, 46, 105, 111>>, password |-> "password1"] }

\* One user has signed up and logged out; the browser loads the app.
InitRouter ==
    /\ users = {u \in RegisteredUsers : u.id = 1}
    /\ nextUserId = 2
    /\ bookmarks = {}
    /\ nextBookmarkId = 1
    /\ settings = {}
    /\ nextSettingsId = 1
    /\ sessions = [s \in Sessions |-> 0]
    /\ pend = [s \in Sessions |-> Idle]
    /\ resp = Response("none", 1, 0, "", NoBody, FALSE)
    /\ now = 0
    /\ cache = NoList
    /\ muts = [m \in Slots |-> FreeSlot]
    /\ listFetch = NoFetch
    /\ listError = FALSE
    /\ location \in Locations
    /\ profile = Loading
    /\ effectPending = TRUE
    /\ authCall = CallOf("session", EmptyBody)
    /\ positions = <<>>
    /\ dragging = {}
    /\ movedDuringDrag = {}
    /\ saves = [m \in Slots |-> FreeSlot]

NextRouter ==
    \/ \E loc \in Locations : PageLoad(loc)
    \/ RouterEffect
    \/ \E loc \in Locations : Navigate(loc)
    \/ \E body \in RouterLoginBodies : Submit("login", body)
    \/ \E body \in RouterSignupBodies : Submit("signup", body)
    \/ AuthFetchSend
    \/ AuthFetchThrow
    \/ \E fail \in BOOLEAN : AuthServe(fail)
    \/ \E asProfile \in BOOLEAN, retry \in BOOLEAN : SessionSettle(asProfile, retry)
    \/ SubmitSettle
    \/ \E fail \in BOOLEAN : ClientLogout(fail)

SpecRouter == InitRouter /\ [][NextRouter]_vars

\* React runs a due effect.
SpecRouterFair == SpecRouter /\ WF_vars(RouterEffect)

\* The session query is resolved with the null of a 401 and the location is
\* not an auth page; a profile is present and the location is an auth page.
AnonymousOffAuthPage == profile = NoProfile /\ ~onAuthPage(location)
ProfileOnAuthPage == HasProfile(profile) /\ onAuthPage(location)

\* C17: when the session query has resolved to no profile after a 401 and
\* the location is neither /login nor /signup, the Router's effect sets the
\* location to /login, and it does run; when a profile is present on /login
\* or /signup, it sets the location to /, and it does run.
C17_RouterRedirects ==
    /\ [][ /\ (RouterEffect /\ AnonymousOffAuthPage) => location' = "/login"
           /\ (RouterEffect /\ ProfileOnAuthPage) => location' = "/" ]_vars
    /\ (AnonymousOffAuthPage ~> location = "/login")
    /\ (ProfileOnAuthPage ~> location = "/")

\* After a signup the page went to "/" while the session query still held
\* the null of the earlier 401: the Router has sent it back to /login.
C17_Witness ==
    /\ location = "/login" /\ ~effectPending
    /\ profile = NoProfile
    /\ sessions[ClientSession] = 2
    /\ authCall # NoCall /\ authCall.op = "session"

\* ------------------------------------ two sessions of one user, concurrent
\* The payloads of the two sessions write different values.
ConcurrentUpdateBodies(s) ==
    IF s = 1 THEN { [title |-> "t3"], [x |-> 1, scale |-> 15] }
    ELSE { [title |-> "t4", x |-> 5] }

ConcurrentIdParams == { <<49>>, <<50>> }

ConcurrentLayoutBatches(s) == IF s = 1 THEN {} ELSE { <<L1, L2>> }

\* Both sessions have logged in as the first user, who owns two bookmarks.
InitConcurrent ==
    /\ users = RegisteredUsers
    /\ nextUserId = 3
    /\ bookmarks = { createBookmarkRow(i, [title |-> "t1", url |-> "u1", category |-> "c1"],
                                       String(1)) : i \in 1..2 }
    /\ nextBookmarkId = 3
    /\ settings = {}
    /\ nextSettingsId = 1
    /\ sessions = [s \in Sessions |-> 1]
    /\ pend = [s \in Sessions |-> Idle]
    /\ resp = Response("none", 1, 0, "", NoBody, FALSE)
    /\ now = 0
    /\ ClientIdle

NextConcurrent ==
    \/ \E s \in Sessions, id \in ConcurrentIdParams :
          \E body \in ConcurrentUpdateBodies(s) : UpdateBookmark(s, id, body, "none")
    \/ \E s \in Sessions :
          \E batch \in ConcurrentLayoutBatches(s) : LayoutBegin(s, batch, "none")
    \/ \E s \in Sessions : LayoutStep(s, FALSE)

SpecConcurrent == InitConcurrent /\ [][NextConcurrent]_vars

\* The table after a write of the given columns to the bookmark of one id.
Written(rows, id, values) ==
    {IF b.id = id
        THEN [k \in DOMAIN b |-> IF k \in DOMAIN values THEN values[k] ELSE b[k]]
        ELSE b : b \in rows}

\* C18: whatever the other session of the same user has written or is in
\* the middle of writing, an update of a bookmark is answered 200 and a
\* layout tuple is applied, and the table afterwards holds the values of
\* this write in the columns it names and, in every other column and row,
\* what the earlier writes left there.
C18_LastWriteWins ==
    [][\A s \in Sessions :
         /\ \A id \in ConcurrentIdParams : \A body \in ConcurrentUpdateBodies(s) :
               ( /\ resp'.op = "updateBookmark" /\ resp'.sess = s
                 /\ UpdateBookmark(s, id, body, "none") )
               => /\ resp'.status = 200
                  /\ bookmarks' = Written(bookmarks, parseInt(id), body)
         /\ ( /\ pend[s] # Idle /\ resp'.op = "layout" /\ resp'.sess = s
              /\ LayoutStep(s, FALSE) )
               => /\ resp'.status \in {0, 204}
                  /\ bookmarks' = Written(bookmarks, pend[s].layouts[pend[s].i].id,
                                          [k \in LayoutColumns |->
                                              pend[s].layouts[pend[s].i][k]])
      ]_vars

\* The second session wrote title and x of bookmark 1, then the first wrote
\* its title, while the second session's layout batch is between its tuples:
\* the title is the first session's, x is still the second's.
C18_Witness ==
    /\ \E b \in bookmarks : b.id = 1 /\ b.title = "t3" /\ b.x = 5
    /\ resp.sess = 1 /\ resp.op = "updateBookmark" /\ resp.status = 200
    /\ pend[2] # Idle

\* C19: the answer to a request in which a storage call rejected is the
\* generic internal error: status 500, the message "Internal server error"
\* and nothing else in the body.
C19_StorageFailureIsGeneric500 ==
    resp.dbError =>
        /\ resp.status = 500
        /\ resp.message = "Internal server error"
        /\ resp.body = NoBody

\* C20: one login, signup or session fetch causes at most one HTTP request
\* attempt: authFetch calls fetch at most once per call.
C20_AtMostOneAttempt ==
    authCall # NoCall => authCall.requests <= 1

\* C23: a signup whose lookup found no user, and whose insert comes after
\* another signup has inserted the same email (up to letter case), creates
\* no row and is answered with the conflict response 409.
C23_RacingSignupConflicts ==
    [][\A s \in Sessions :
         ( /\ pend[s].op = "signup"
           /\ \E u \in users : u.email = toLowerCase(pend[s].data.email)
           /\ SignupCreate(s, FALSE) )
         => /\ users' = users
            /\ resp'.status = 409
      ]_vars

\* The answer of the login route to a request it refuses for its credentials.
InvalidCredentials(s) ==
    Response("login", s, 401, "Invalid email or password", NoBody, FALSE)

\* C30: a login with a schema-valid payload that names an unregistered
\* email, and one that names a registered email with another password than
\* the stored one, get the same answer, which depends on neither payload
\* (status 401, the same message, no other body), and both leave the session
\* as it was.
C30_LoginDoesNotRevealEmail ==
    [][\A s \in Sessions : \A body \in LoginBodies :
         ( /\ loginSchemaOk(body)
           /\ \/ getUserByEmail(body.email) = {}
              \/ \E u \in getUserByEmail(body.email) :
                    u.passwordHash.hash # body.password
           /\ resp'.op = "login" /\ resp'.sess = s
           /\ LoginHandler(s, body, FALSE) )
         => /\ resp' = InvalidCredentials(s)
            /\ sessions' = sessions
      ]_vars

\* A login was refused with 401 while one of the emails of the inputs is
\* registered and another is not: both cases of the claim could be sent.
C30_Witness ==
    /\ resp.op = "login" /\ resp.status = 401
    /\ \E body \in LoginBodies : loginSchemaOk(body) /\ getUserByEmail(body.email) = {}
    /\ \E body \in LoginBodies :
          /\ loginSchemaOk(body)
          /\ \E u \in getUserByEmail(body.email) : u.passwordHash.hash # body.password

\* ------------------------------------- the bookmark routes of two users
\* A create payload with an owner field and a scale of 5, update payloads
\* with an owner field and with a scale of 0.1, and layout batches of two
\* tuples: of two bookmarks, and of one bookmark twice.
StoreCreateBodies ==
    { [title |-> "t2", url |-> "u2", category |-> "c1", userId |-> String(2),
       scale |-> 50] }
StoreUpdateBodies == { [userId |-> String(2), x |-> 3], [scale |-> 1] }
StoreLayoutBatches == { <<L1, L2>>, <<L1, [L1 EXCEPT !.x = 9]>> }

\* Session 1 has logged in as the first user, who owns one bookmark, and
\* session 2 as the second user.
InitStore ==
    /\ users = RegisteredUsers
    /\ nextUserId = 3
    /\ bookmarks = { createBookmarkRow(1, [title |-> "t1", url |-> "u1", category |-> "c1"],
                                       String(1)) }
    /\ nextBookmarkId = 2
    /\ settings = {}
    /\ nextSettingsId = 1
    /\ sessions = [s \in Sessions |-> s]
    /\ pend = [s \in Sessions |-> Idle]
    /\ resp = Response("none", 1, 0, "", NoBody, FALSE)
    /\ now = 0
    /\ ClientIdle

\* Create, update and layout requests of both sessions; an UPDATE of the
\* layout loop may reject.
NextStore ==
    \/ \E s \in Sessions, body \in StoreCreateBodies : CreateBookmark(s, body, "none")
    \/ \E s \in Sessions, id \in ConcurrentIdParams, body \in StoreUpdateBodies :
          UpdateBookmark(s, id, body, "none")
    \/ \E batch \in StoreLayoutBatches : LayoutBegin(1, batch, "none")
    \/ \E s \in Sessions, fail \in BOOLEAN : LayoutStep(s, fail)

SpecStore == InitStore /\ [][NextStore]_vars

\* The sequences that hold the elements of seq in another or the same order.
Reorderings(seq) ==
    { [i \in DOMAIN seq |-> seq[f[i]]] :
        f \in {g \in [DOMAIN seq -> DOMAIN seq] :
                 \A i, j \in DOMAIN seq : i # j => g[i] # g[j]} }

DistinctIds(layouts) ==
    \A i, j \in DOMAIN layouts : i # j => layouts[i].id # layouts[j].id

\* The tuples of the layout request of session s that are still to be applied.
RemainingLayouts(s) == SubSeq(pend[s].layouts, pend[s].i, Len(pend[s].layouts))

\* C22 as stated: for every valid batch, applying the tuples in any
\* permutation leaves the same table as applying them in array order.
C22_AnyOrderSameState ==
    \A s \in Sessions :
        pend[s].op = "layout" =>
            \A perm \in Reorderings(RemainingLayouts(s)) :
                ApplyLayouts(bookmarks, pend[s].userId, perm)
                    = ApplyLayouts(bookmarks, pend[s].userId, RemainingLayouts(s))

\* C22 amended: for every valid batch in which no two tuples name the same
\* bookmark, applying the tuples in any permutation leaves the same table
\* as applying them in array order.
C22_AnyOrderSameStateDistinctIds ==
    \A s \in Sessions :
        (pend[s].op = "layout" /\ DistinctIds(RemainingLayouts(s))) =>
            \A perm \in Reorderings(RemainingLayouts(s)) :
                ApplyLayouts(bookmarks, pend[s].userId, perm)
                    = ApplyLayouts(bookmarks, pend[s].userId, RemainingLayouts(s))

\* A valid batch of two tuples that name two bookmarks of the session user
\* has been accepted and none of it applied yet; applying it changes both rows.
C22_Witness ==
    /\ pend[1].op = "layout" /\ pend[1].i = 1
    /\ Len(pend[1].layouts) = 2 /\ DistinctIds(pend[1].layouts)
    /\ \A i \in 1..2 : OwnedById(bookmarks, pend[1].layouts[i].id, pend[1].userId) # {}
    /\ \A b \in bookmarks :
          b \notin ApplyLayouts(bookmarks, pend[1].userId, pend[1].layouts)

\* C24: no request changes the owner of a stored bookmark, whatever owner
\* field its payload carries, and a bookmark that appears in the table was
\* created by the request just answered and is owned by that session's user.
C24_OwnerNeverChanges ==
    [][ /\ \A b \in bookmarks : \A c \in bookmarks' :
              c.id = b.id => c.userId = b.userId
        /\ \A c \in bookmarks' :
              (\A b \in bookmarks : b.id # c.id)
                 => /\ resp'.op = "createBookmark" /\ resp'.status = 201
                    /\ c.userId = String(sessions[resp'.sess])
      ]_vars

\* The first user created a bookmark with a payload that names the second
\* user as owner, and one of them then sent an update that names the second
\* user as owner and x = 0.3: the row took the x and is the first user's.
C24_Witness ==
    \E b \in bookmarks : b.id = 2 /\ b.userId = String(1) /\ b.x = 3

\* C25: every stored bookmark's scale lies within [0.2, 3].
C25_StoredScaleInRange ==
    \A b \in bookmarks : b.scale >= ScaleMin /\ b.scale <= ScaleMax

\* C26: when a layout request is answered with an error (400 or 500), none
\* of the UPDATEs of its batch that were executed before has matched a row.
C26_FailedLayoutWritesNothing ==
    [][\A s \in Sessions :
         ( /\ pend[s].op = "layout"
           /\ resp'.op = "layout" /\ resp'.sess = s
           /\ resp'.status \in {400, 500} )
         => \A j \in 1..(pend[s].i - 1) :
               OwnedById(bookmarks', pend[s].layouts[j].id, pend[s].userId) = {}
      ]_vars

\* C27: while a delete mutation is between its optimistic removal and its
\* settlement, a list fetch that completes does not put the removed
\* bookmark back into the cached list.
C27_RemovedStaysAbsent ==
    [][\A m \in Slots :
         ( /\ muts[m] # FreeSlot /\ muts'[m] = muts[m]
           /\ ListDone(FALSE) )
         => muts[m].id \notin Ids(cache'.list)
      ]_vars

\* ------------------------- the router while every request is answered
\* The router specification without reloads and logouts by the user and
\* without failing requests: what the client does by itself after a submit.
NextRouterAnswered ==
    \/ RouterEffect
    \/ \E loc \in Locations : Navigate(loc)
    \/ \E body \in RouterLoginBodies : Submit("login", body)
    \/ \E body \in RouterSignupBodies : Submit("signup", body)
    \/ AuthFetchSend
    \/ AuthServe(FALSE)
    \/ \E asProfile \in BOOLEAN : SessionSettle(asProfile, FALSE)
    \/ SubmitSettle

\* React runs a due effect, authFetch calls fetch and the server answers.
\* The continuation of a settled fetch is a task of the event loop, which
\* waits for the effects of a render in progress but gets its turn however
\* often the user clicks.
SpecRouterAnswered ==
    /\ InitRouter /\ [][NextRouterAnswered]_vars
    /\ WF_vars(RouterEffect)
    /\ WF_vars(AuthFetchSend)
    /\ WF_vars(AuthServe(FALSE))
    /\ SF_vars(\E asProfile \in BOOLEAN : SessionSettle(asProfile, FALSE))
    /\ SF_vars(SubmitSettle)

\* The login or signup request has been answered with the profile.
LoginSucceeded ==
    /\ authCall # NoCall /\ authCall.op \in {"login", "signup"}
    /\ authCall.phase = "got" /\ authCall.status \in {200, 201}

SettledHome == location = "/" /\ HasProfile(profile) /\ ~effectPending

DragPoints == { <<0, 0, 0>>, <<10, 0, -5>> }

\* The first user is logged in on the client's session and owns one
\* bookmark, which has no stored position; Home has mounted and the first
\* fetch of the list is in flight.
InitDrag ==
    /\ users = RegisteredUsers
    /\ nextUserId = 3
    /\ bookmarks = {b \in ListedBookmarks : b.id = 1}
    /\ nextBookmarkId = 2
    /\ settings = {}
    /\ nextSettingsId = 1
    /\ sessions = [s \in Sessions |-> IF s = ClientSession THEN 1 ELSE 0]
    /\ pend = [s \in Sessions |-> Idle]
    /\ resp = Response("none", 1, 0, "", NoBody, FALSE)
    /\ now = 0
    /\ cache = NoList
    /\ muts = [m \in Slots |-> FreeSlot]
    /\ listFetch = FetchSent
    /\ listError = FALSE
    /\ location = "/"
    /\ profile = [state |-> "loading"]
    /\ effectPending = FALSE
    /\ authCall = NoCall
    /\ positions = <<>>
    /\ dragging = {}
    /\ movedDuringDrag = {}
    /\ saves = [m \in Slots |-> FreeSlot]

\* Drags of the bookmark's node, the layout saves they start and the list
\* fetches; an UPDATE of a save may reject.
NextDrag ==
    \/ PointerDown(1)
    \/ \E point \in DragPoints : PointerMove(1, point)
    \/ PointerUp(1)
    \/ \E m \in Slots, fail \in {"none", "store"} : SaveServe(m, fail)
    \/ \E m \in Slots : SaveSettle(m)
    \/ ListServe("none")
    \/ ListDone(FALSE)

SpecDrag == InitDrag /\ [][NextDrag]_vars

\* A save mutation has started: Home's onLayoutSave was called.
SaveStarted == \E m \in Slots : saves[m] = FreeSlot /\ saves'[m] # FreeSlot

\* C21: a layout save is started only by the pointer-up of a node that was
\* being dragged and got a pointer-move during that drag; a pointer-move
\* starts none, and neither does a pointer-up of a drag that never moved.
C21_SaveOnlyOnDragEnd ==
    [][ /\ SaveStarted =>
              \E id \in DOMAIN positions :
                  /\ id \in dragging /\ id \in movedDuringDrag
                  /\ PointerUp(id)
        /\ \A id \in DOMAIN positions :
              /\ (\E point \in DragPoints : PointerMove(id, point)) => saves' = saves
              /\ (id \notin movedDuringDrag /\ PointerUp(id)) => saves' = saves
      ]_vars

\* The node was dragged to a point and released: the drag is over and a save
\* with that point is in flight, while an earlier pointer-down and pointer-up
\* without a move would have left every slot free.
C21_Witness ==
    /\ dragging = {} /\ 1 \in movedDuringDrag
    /\ saves[1] # FreeSlot /\ saves[1].phase = "sent"
    /\ saves[1].payload[1].x = 10
    /\ \A m \in Slots : m > 1 => saves[m] = FreeSlot

\* C29: the payload of a committed drag carries, for every node, the position
\* the Scene holds for it, which for the dragged node is that of the last
\* pointer-move; and when a list fetch completes, a node that is rendered
\* where the fetched row has its bookmark stays where it is.
C29_DragRoundTrip ==
    [][ /\ \A m \in Slots :
              (saves[m] = FreeSlot /\ saves'[m] # FreeSlot) =>
                  \A i \in DOMAIN saves'[m].payload :
                      LET t == saves'[m].payload[i]
                      IN <<t.x, t.y, t.z>> = positions[t.id]
        /\ (listFetch.phase = "got" /\ listFetch.ok /\ ListDone(FALSE)) =>
              \A i \in DOMAIN listFetch.list :
                  LET b == listFetch.list[i]
                  IN (b.id \in DOMAIN positions /\ positions[b.id] = <<b.x, b.y, b.z>>)
                        => positions'[b.id] = positions[b.id]
      ]_vars
====
